---- MODULE Spec2Model ----
(***************************************************************************)
(* State-machine model of the Stylio backend (nagendranaga1357/Stylio-be): *)
(* the booking status machine and its routes, favorites, user addresses,   *)
(* the search filter / validation layer, the paginated lists, count        *)
(* formatting, the counters of a short, the salon text search, booking    *)
(* slots, refresh tokens, one-time passwords, the password reset and the   *)
(* account deletion.  Every handler is one action; the handlers whose      *)
(* interleaving matters (favorites, short counters, status changes of one  *)
(* booking, one-time passwords) are split at their awaits.                 *)
(***************************************************************************)
EXTENDS Integers, Sequences, FiniteSets, Bags, TLC

VARIABLES
  bookings,       \* Booking collection: sequence of documents, _id = index
  notifications,  \* Notification collection: bag of documents
  resp,           \* the last HTTP response of the booking API (with its request)
  favorites,      \* Favorite collection: set of documents [id, user, salon]
  pending,        \* favorites requests between their findOne and their write
  favResp,        \* the last HTTP response of the favorites API (with its request)
  addresses,      \* user.addresses of the signed-in user: sequence of subdocuments
  addrResp,       \* the last HTTP response of the address API (with its request)
  filt,           \* one application of a search filter builder to a document
  search,         \* a search request on its way through validate and controller
  pag,            \* one call of buildPaginationResponse with its arguments
  list,           \* the last request of a paginated list route with its response
  fmt,            \* one call of formatCount with its argument
  short,          \* the stored Short document: its counters
  shortLikes,     \* ShortLike collection: the users who like the short
  shortReqs,      \* requests on the short between their awaits
  shortDone,      \* number of answered requests by outcome (history)
  caller,         \* req.user of the last booking request (history)
  txt,            \* the last text search on GET /salons with the salons it returned
  stored,         \* the statuses stored for the booking, oldest first, each with its request
  statusReqs,     \* the status-changing requests in flight
  statusNotes,    \* the notifications created by status changes
  statusDone,     \* the responses of the status-changing requests
  statusStarted,  \* status-changing requests received
  slotBookings,   \* bookings with their salon, date, time and status
  slotResp,       \* the last response of a booking or slot request
  accounts,       \* the users: registered, and the refresh token stored
  now,            \* the clock, in seconds
  issuedTokens,   \* the refresh tokens issued so far
  spentTokens,    \* the tokens presented in a successful refresh
  revokedTokens,  \* the tokens issued to a user before a logout with no login since
  authResp,       \* the last response of an auth request
  otps,           \* the OTP records, oldest first
  otpReqs,        \* the OTP requests in flight
  otpClock,       \* the clock, in minutes
  otpVerified,    \* the records of the successful verifications
  passwords,      \* the password of each user
  resetOtp,       \* the password-reset OTP of each user
  jwts,           \* the tokens signed so far
  resetTokens,    \* the tokens returned by verifyResetOtp
  resetResp,      \* the last response of a password-reset request
  acctUsers,      \* the stored users
  acctBookings,   \* the bookings, with customer and status
  acctFavorites,  \* the favorites, as user and salon
  acctResp        \* the last response of an account request

bookingVars == <<bookings, notifications, resp>>

favVars == <<favorites, pending, favResp>>

addrVars == <<addresses, addrResp>>

filterVars == <<filt>>

searchVars == <<search>>

pagVars == <<pag>>

listVars == <<list>>

fmtVars == <<fmt>>

shortVars == <<short, shortLikes, shortReqs, shortDone>>

authVars == <<caller>>

textVars == <<txt>>

raceVars == <<stored, statusReqs, statusNotes, statusDone, statusStarted>>

slotVars == <<slotBookings, slotResp>>

refreshVars == <<accounts, now, issuedTokens, spentTokens, revokedTokens, authResp>>

otpVars == <<otps, otpReqs, otpClock, otpVerified>>

resetVars == <<passwords, resetOtp, jwts, resetTokens, resetResp>>

accountVars == <<acctUsers, acctBookings, acctFavorites, acctResp>>

vars == <<bookings, notifications, resp, favorites, pending, favResp,
          addresses, addrResp, filt, search,
          pag,
          list,
          fmt,
          short, shortLikes, shortReqs, shortDone,
          caller,
          txt,
          stored, statusReqs, statusNotes, statusDone, statusStarted,
          slotBookings, slotResp,
          accounts, now, issuedTokens, spentTokens, revokedTokens, authResp,
          otps, otpReqs, otpClock, otpVerified,
          passwords, resetOtp, jwts, resetTokens, resetResp,
          acctUsers, acctBookings, acctFavorites, acctResp>>

----------------------------------------------------------------------------
(* Bounds *)

MaxBookings == 1      \* Booking documents that are ever created
MaxServiceIds == 2    \* length of the services list of a createBooking request
MaxInFlight == 2      \* favorites requests in flight at the same time
MaxAddresses == 3     \* addresses a user stores at the same time
MaxPrice == 2         \* largest service price in the catalogue
MaxPage == 5          \* largest page number of a buildPaginationResponse call
MaxLimit == 4         \* largest limit of a buildPaginationResponse call
MaxTotal == 12        \* largest total of a buildPaginationResponse call
MaxShorts == 100      \* Short documents in the collection
MaxCountSteps == 60   \* counts taken from each range of formatCount
MaxShortRequests == 2 \* requests on the short in flight at the same time
MaxShortOps == 3      \* requests on the short that are ever received
MaxQueryLen == 3      \* characters of a text query
MaxStatusRequests == 2 \* concurrent status-changing requests for the booking
MaxStatusOps == 3     \* status-changing requests that are ever received
MaxSlotBookings == 2  \* bookings with a date and a time
MaxNow == 2           \* seconds the clock runs
RefreshExpiresIn == 2 \* seconds a refresh token is valid (30d in the configuration)
MaxOtpRequests == 2   \* concurrent OTP requests
MaxOtps == 2          \* OTP records that are ever created
MaxOtpClock == 2      \* minutes the OTP clock runs
OtpExpiresMinutes == 1 \* minutes an OTP is valid (config.otp.expiresMinutes)
MaxJwts == 3          \* tokens that are ever signed
MaxAccountBookings == 2 \* bookings of the users whose accounts are deleted

----------------------------------------------------------------------------
(* Reference data of the booking API *)

Users == {"u1", "u2"}

None == "none"

\* Salon collection: s1 active, s2 inactive; any other id is not stored.
SalonDocs == [s1 |-> [isActive |-> TRUE],
              s2 |-> [isActive |-> FALSE]]

SalonIdInputs == DOMAIN SalonDocs \cup {"sX"}

\* Service collection, _id = index: each service belongs to exactly one salon
\* (1 and 3 to s1, 3 inactive; 2 to the other salon).
ServiceDocs == <<[salon |-> "s1", isActive |-> TRUE],
                 [salon |-> "s2", isActive |-> TRUE],
                 [salon |-> "s1", isActive |-> FALSE]>>

ServiceIdInputs == DOMAIN ServiceDocs

\* The `services` array of a createBooking request.  The handler reads it only
\* through `$in` and `.length`, neither of which depends on the order of the
\* ids, so the lists are drawn in non-decreasing order (duplicates included).
ServiceIdLists ==
  {l \in UNION {[1..n -> ServiceIdInputs] : n \in 0..MaxServiceIds} :
     \A i \in 1..(Len(l) - 1) : l[i] <= l[i + 1]}

BOOKING_STATUSES == {"pending", "confirmed", "in_progress", "completed",
                     "cancelled", "no_show"}

\* Status strings a client may send, one of them not a status at all.
StatusInputs == BOOKING_STATUSES \cup {"bogus"}

validStatuses == {"pending", "confirmed", "in_progress", "completed",
                  "cancelled", "no_show"}

\* Mutant of allowedTransitions: a completed booking may still be cancelled.
allowedTransitions_CompletedCancellable ==
  [pending     |-> {"confirmed", "cancelled"},
   confirmed   |-> {"in_progress", "cancelled", "no_show"},
   in_progress |-> {"completed", "cancelled"},
   completed   |-> {"cancelled"},
   cancelled   |-> {},
   no_show     |-> {}]

allowedTransitions ==
  [pending     |-> {"confirmed", "cancelled"},
   confirmed   |-> {"in_progress", "cancelled", "no_show"},
   in_progress |-> {"completed", "cancelled"},
   completed   |-> {},
   cancelled   |-> {},
   no_show     |-> {}]

notificationMessages ==
  [confirmed   |-> "booking_confirmed",
   in_progress |-> "booking_started",
   completed   |-> "booking_completed",
   cancelled   |-> "booking_cancelled",
   no_show     |-> "booking_no_show"]

----------------------------------------------------------------------------
(* Helpers *)

Range(s) == {s[i] : i \in DOMAIN s}

\* Notification.create(doc)
NotificationCreate(n, user, type, bookingId) ==
  n (+) SetToBag({[user |-> user, notificationType |-> type,
                   relatedBooking |-> bookingId]})

\* res.status(code).json(...): the response, with the booking and the status
\* its request named.  The history field valid describes a createBooking
\* request: whether it named a stored active salon and only active services
\* of that salon.
Response(op, code, id, to) ==
  [op |-> op, code |-> code, id |-> id, to |-> to, valid |-> TRUE]

\* History only: the request names a stored, active salon and every listed id
\* is an active service of that salon.
RequestValid(salonId, serviceIds) ==
  /\ salonId \in DOMAIN SalonDocs
  /\ SalonDocs[salonId].isActive
  /\ \A i \in DOMAIN serviceIds :
       /\ serviceIds[i] \in DOMAIN ServiceDocs
       /\ ServiceDocs[serviceIds[i]].salon = salonId
       /\ ServiceDocs[serviceIds[i]].isActive

\* Booking.findById(id)
BookingExists(id) == id \in 1..Len(bookings)

\* Salon.findById(salonId), then `!salon || !salon.isActive`
SalonUsable(salonId) ==
  salonId \in DOMAIN SalonDocs /\ SalonDocs[salonId].isActive

\* Mutant of FindServices: the query forgets `salon: salonId`.
FindServices_AnySalon(serviceIds, salonId) ==
  {s \in DOMAIN ServiceDocs :
     /\ s \in Range(serviceIds)
     /\ ServiceDocs[s].isActive}

\* Service.find({ _id: { $in: serviceIds }, salon: salonId, isActive: true })
FindServices(serviceIds, salonId) ==
  {s \in DOMAIN ServiceDocs :
     /\ s \in Range(serviceIds)
     /\ ServiceDocs[s].salon = salonId
     /\ ServiceDocs[s].isActive}

----------------------------------------------------------------------------
(* Booking handlers (controllers/booking.controller.js) *)

\* POST /api/bookings.  The body carries the fields the Booking schema requires
\* (bookingDate, bookingTime), so Booking.create passes schema validation.
createBooking(u, salonId, serviceIds) ==
  LET r == [Response("createBooking", 0, 0, None)
              EXCEPT !.valid = RequestValid(salonId, serviceIds)]
      services == FindServices(serviceIds, salonId)
  IN
  IF ~SalonUsable(salonId)
    THEN /\ resp' = [r EXCEPT !.code = 404]
         /\ UNCHANGED <<bookings, notifications>>
  ELSE IF Cardinality(services) # Len(serviceIds)
    THEN /\ resp' = [r EXCEPT !.code = 400]
         /\ UNCHANGED <<bookings, notifications>>
  ELSE /\ Len(bookings) < MaxBookings
       /\ bookings' = Append(bookings,
              [customer |-> u, salon |-> salonId, services |-> services,
               status |-> "pending", cancelledBy |-> None])
       /\ notifications' = NotificationCreate(notifications, u,
              "booking_created", Len(bookings) + 1)
       /\ resp' = [r EXCEPT !.code = 201, !.id = Len(bookings) + 1]

\* POST /api/bookings/:id/cancel
cancelBooking(u, id) ==
  LET r == Response("cancelBooking", 0, id, "cancelled") IN
  IF ~(BookingExists(id) /\ bookings[id].customer = u)
    THEN /\ resp' = [r EXCEPT !.code = 404]
         /\ UNCHANGED <<bookings, notifications>>
  ELSE IF bookings[id].status \in {"completed", "cancelled"}
    THEN /\ resp' = [r EXCEPT !.code = 400]
         /\ UNCHANGED <<bookings, notifications>>
  ELSE /\ bookings' = [bookings EXCEPT ![id].status = "cancelled",
                                       ![id].cancelledBy = u]
       /\ notifications' = NotificationCreate(notifications, u,
              "booking_cancelled", id)
       /\ resp' = [r EXCEPT !.code = 200]

\* PATCH /api/bookings/:id/status
updateBookingStatus(u, id, newStatus) ==
  LET r == Response("updateBookingStatus", 0, id, newStatus) IN
  IF newStatus \notin validStatuses
    THEN /\ resp' = [r EXCEPT !.code = 400]
         /\ UNCHANGED <<bookings, notifications>>
  ELSE IF ~BookingExists(id)
    THEN /\ resp' = [r EXCEPT !.code = 404]
         /\ UNCHANGED <<bookings, notifications>>
  ELSE IF newStatus \notin allowedTransitions[bookings[id].status]
    THEN /\ resp' = [r EXCEPT !.code = 400]
         /\ UNCHANGED <<bookings, notifications>>
  ELSE /\ bookings' =
            IF newStatus = "cancelled"
              THEN [bookings EXCEPT ![id].status = newStatus,
                                    ![id].cancelledBy = u]
              ELSE [bookings EXCEPT ![id].status = newStatus]
       /\ notifications' =
            IF newStatus \in DOMAIN notificationMessages
              THEN NotificationCreate(notifications, bookings[id].customer,
                       notificationMessages[newStatus], id)
              ELSE notifications
       /\ resp' = [r EXCEPT !.code = 200]

\* The shape shared by POST /:id/confirm, /:id/complete and /:id/no-show:
\* find, check the stored status against the accepted ones, set, save, notify.
\* None of the three reads req.user, so the caller is no parameter.
DedicatedTransition(op, id, accepted, target, type) ==
  LET r == Response(op, 0, id, target) IN
  IF ~BookingExists(id)
    THEN /\ resp' = [r EXCEPT !.code = 404]
         /\ UNCHANGED <<bookings, notifications>>
  ELSE IF bookings[id].status \notin accepted
    THEN /\ resp' = [r EXCEPT !.code = 400]
         /\ UNCHANGED <<bookings, notifications>>
  ELSE /\ bookings' = [bookings EXCEPT ![id].status = target]
       /\ notifications' = NotificationCreate(notifications,
              bookings[id].customer, type, id)
       /\ resp' = [r EXCEPT !.code = 200]

\* POST /api/bookings/:id/confirm
confirmBooking(id) ==
  DedicatedTransition("confirmBooking", id, {"pending"}, "confirmed",
                      "booking_confirmed")

\* POST /api/bookings/:id/complete
completeBooking(id) ==
  DedicatedTransition("completeBooking", id, {"confirmed", "in_progress"},
                      "completed", "booking_completed")

\* POST /api/bookings/:id/no-show
markNoShow(id) ==
  DedicatedTransition("markNoShow", id, {"confirmed"}, "no_show",
                      "booking_no_show")

InitBooking ==
  /\ bookings = <<>>
  /\ notifications = EmptyBag
  /\ resp = Response("none", 0, 0, None)

BookingIds == 1..MaxBookings

notBookingVars == <<favVars, addrVars, filterVars, searchVars,
  pagVars,
  listVars,
  fmtVars,
  shortVars,
  authVars,
  textVars,
  raceVars,
  slotVars,
  refreshVars,
  otpVars,
  resetVars,
  accountVars>>

NextBooking ==
  \/ \E u \in Users, s \in SalonIdInputs, l \in ServiceIdLists :
        createBooking(u, s, l) /\ UNCHANGED notBookingVars
  \/ \E u \in Users, id \in BookingIds :
        cancelBooking(u, id) /\ UNCHANGED notBookingVars
  \/ \E u \in Users, id \in BookingIds, t \in StatusInputs :
        updateBookingStatus(u, id, t) /\ UNCHANGED notBookingVars
  \/ \E id \in BookingIds : confirmBooking(id) /\ UNCHANGED notBookingVars
  \/ \E id \in BookingIds : completeBooking(id) /\ UNCHANGED notBookingVars
  \/ \E id \in BookingIds : markNoShow(id) /\ UNCHANGED notBookingVars



----------------------------------------------------------------------------
(* Claims about the booking status machine *)

\* The transition table as the specification states it.
TransitionTable ==
  [pending     |-> {"confirmed", "cancelled"},
   confirmed   |-> {"in_progress", "cancelled", "no_show"},
   in_progress |-> {"completed", "cancelled"},
   completed   |-> {},
   cancelled   |-> {},
   no_show     |-> {}]

Terminal == {"completed", "cancelled", "no_show"}

\* C1: PATCH /bookings/:id/status on a stored booking with status s and any
\* requested status t changes the status to t when t is in the allowed set of
\* s; for every other pair it answers 400 and leaves the booking (status and
\* cancellation fields) and the notifications unchanged.
C1_UpdateStatusFollowsTable ==
  [][(resp'.op = "updateBookingStatus" /\ BookingExists(resp'.id)) =>
       LET id == resp'.id
           t == resp'.to
           s == bookings[id].status
       IN IF t \in BOOKING_STATUSES /\ t \in TransitionTable[s]
            THEN /\ resp'.code = 200
                 /\ bookings'[id].status = t
            ELSE /\ resp'.code = 400
                 /\ bookings' = bookings
                 /\ notifications' = notifications]_vars

\* C1 witness: the transition completed -> pending was requested and rejected.
C1_Witness ==
  /\ resp.op = "updateBookingStatus"
  /\ resp.code = 400
  /\ resp.to = "pending"
  /\ BookingExists(resp.id)
  /\ bookings[resp.id].status = "completed"

\* C2: a booking whose stored status is completed, cancelled or no_show never
\* changes status again, whatever booking operation follows.
C2_TerminalIsFinal ==
  [][\A i \in 1..Len(bookings) :
       bookings[i].status \in Terminal =>
         bookings'[i].status = bookings[i].status]_vars

\* C3: a dedicated transition endpoint (confirm, complete, no-show, cancel)
\* that finds the booking accepts it in status s exactly when the transition
\* table allows s -> target.
C3_DedicatedEndpointsMatchTable ==
  [][(/\ resp'.op \in {"confirmBooking", "completeBooking", "markNoShow",
                       "cancelBooking"}
      /\ resp'.code \in {200, 400}) =>
       (resp'.code = 200 <=>
          resp'.to \in TransitionTable[bookings[resp'.id].status])]_vars

\* C4: createBooking stores a booking only for a request that names a stored
\* active salon and only active services of it; the new booking is pending
\* and its line items are active services; a request that stores nothing
\* creates no notification, and an invalid one is answered 404/400.  Hence
\* every stored line item is a service of the booking's salon.
C4_CreateBookingChecksSalonAndServices ==
  /\ [](\A i \in 1..Len(bookings) : \A s \in bookings[i].services :
          ServiceDocs[s].salon = bookings[i].salon)
  /\ [][resp'.op = "createBooking" =>
          IF bookings' # bookings
            THEN /\ resp'.valid
                 /\ resp'.code = 201
                 /\ Len(bookings') = Len(bookings) + 1
                 /\ SubSeq(bookings', 1, Len(bookings)) = bookings
                 /\ bookings'[Len(bookings')].status = "pending"
                 /\ SalonDocs[bookings'[Len(bookings')].salon].isActive
                 /\ \A sv \in bookings'[Len(bookings')].services :
                      ServiceDocs[sv].isActive
            ELSE /\ notifications' = notifications
                 /\ ~resp'.valid => resp'.code \in {400, 404}
       ]_vars

\* C4 witness: a booking with a line item is stored and a later createBooking
\* request was rejected because of the services it listed.
C4_Witness ==
  /\ Len(bookings) >= 1
  /\ bookings[1].services # {}
  /\ resp.op = "createBooking"
  /\ resp.code = 400
  /\ ~resp.valid

----------------------------------------------------------------------------
(* Favorites (controllers/provider.controller.js, models/Favorite.js) *)

FavSalons == {"s1", "s2"}

\* req.body.salon: a salon id, or absent.
FavSalonInputs == FavSalons \cup {None}

\* Favorite.findOne({ user, salon }): the _id of a matching document, 0 for null
FavoriteFindOne_AnyUser(u, s) ==
  IF \E d \in favorites : d.salon = s
    THEN (CHOOSE d \in favorites : d.salon = s).id
    ELSE 0

FavoriteFindOne(u, s) ==
  IF \E d \in favorites : d.user = u /\ d.salon = s
    THEN (CHOOSE d \in favorites : d.user = u /\ d.salon = s).id
    ELSE 0

\* favoriteSchema.index({ user: 1, salon: 1 }, { unique: true }): an insert of
\* a pair that is already stored fails with E11000.
DuplicateKey_NoIndex(u, s) == FALSE

DuplicateKey(u, s) == \E d \in favorites : d.user = u /\ d.salon = s

\* A new ObjectId: the least id that no stored document and no request in
\* flight holds.
FreshFavId ==
  LET used == {d.id : d \in favorites} \cup
              {p.existing : p \in DOMAIN pending}
  IN CHOOSE i \in 1..(Cardinality(used) + 1) :
       i \notin used /\ \A j \in 1..(i - 1) : j \in used

\* Favorite.create({ user, salon }) that succeeded
FavoriteCreate(u, s) ==
  favorites \cup {[id |-> FreshFavId, user |-> u, salon |-> s]}

\* res.status(code).json(...) of the favorites API, with its request.  Two
\* history fields: existed tells whether the pair was stored when the handler
\* wrote (or rejected), repeat is the code of the response before this one when
\* that one answered the same request (same handler, user and salon), else 0.
FavResponse(op, code, u, s) ==
  [op |-> op, code |-> code, user |-> u, salon |-> s,
   existed |-> \E d \in favorites : d.user = u /\ d.salon = s,
   repeat |-> IF favResp.op = op /\ favResp.user = u /\ favResp.salon = s
                THEN favResp.code ELSE 0]

Respond(r) == favResp' = r

\* addFavorite after `existing` was read as null: create, 201; a duplicate key
\* is answered 400 by errorHandler (err.code === 11000).
AddFavoriteCreate(u, s) ==
  IF DuplicateKey(u, s)
    THEN /\ Respond(FavResponse("addFavorite", 400, u, s))
         /\ UNCHANGED favorites
    ELSE /\ favorites' = FavoriteCreate(u, s)
         /\ Respond(FavResponse("addFavorite", 201, u, s))

\* toggleFavorite after `existing` was read: existing.deleteOne() removes the
\* document with that _id (if it is still stored); otherwise create.
ToggleFavoriteWrite(u, s, existing) ==
  IF existing # 0
    THEN /\ favorites' = {d \in favorites : d.id # existing}
         /\ Respond(FavResponse("toggleFavorite", 200, u, s))
  ELSE IF DuplicateKey(u, s)
    THEN /\ Respond(FavResponse("toggleFavorite", 400, u, s))
         /\ UNCHANGED favorites
  ELSE /\ favorites' = FavoriteCreate(u, s)
       /\ Respond(FavResponse("toggleFavorite", 200, u, s))

\* POST /api/favorites, run without interleaving
addFavorite(u, s) ==
  /\ IF s = None
       THEN Respond(FavResponse("addFavorite", 400, u, s)) /\ UNCHANGED favorites
     ELSE IF FavoriteFindOne(u, s) # 0
       THEN Respond(FavResponse("addFavorite", 400, u, s)) /\ UNCHANGED favorites
     ELSE AddFavoriteCreate(u, s)
  /\ UNCHANGED pending

\* POST /api/favorites/toggle, run without interleaving
toggleFavorite(u, s) ==
  /\ IF s = None
       THEN Respond(FavResponse("toggleFavorite", 400, u, s)) /\ UNCHANGED favorites
       ELSE ToggleFavoriteWrite(u, s, FavoriteFindOne(u, s))
  /\ UNCHANGED pending

\* The :id of DELETE /api/favorites/:id: the ObjectId of a Favorite document
\* or of a salon (the tag names the collection the id comes from).
FavIdInputs ==
  {[tag |-> "favorite", v |-> i] : i \in {0} \cup {d.id : d \in favorites}}
  \cup {[tag |-> "salon", v |-> s] : s \in FavSalons}

\* DELETE /api/favorites/:id: findOneAndDelete by _id, then by salon id.
removeFavorite(u, id) ==
  LET byId == {d \in favorites :
                 id.tag = "favorite" /\ d.id = id.v /\ d.user = u}
      bySalon == {d \in favorites :
                 id.tag = "salon" /\ d.salon = id.v /\ d.user = u}
      found == IF byId # {} THEN byId ELSE bySalon
      s == IF found # {} THEN (CHOOSE d \in found : TRUE).salon ELSE None
  IN
  /\ IF found = {}
       THEN /\ Respond(FavResponse("removeFavorite", 404, u, s))
            /\ UNCHANGED favorites
       ELSE /\ favorites' = favorites \ {CHOOSE d \in found : TRUE}
            /\ Respond(FavResponse("removeFavorite", 200, u, s))
  /\ UNCHANGED pending

InitFav ==
  /\ favorites = {}
  /\ pending = EmptyBag
  /\ favResp = [op |-> "none", code |-> 0, user |-> None, salon |-> None,
                existed |-> FALSE, repeat |-> 0]

notFavVars == <<bookingVars, addrVars, filterVars, searchVars,
  pagVars,
  listVars,
  fmtVars,
  shortVars,
  authVars,
  textVars,
  raceVars,
  slotVars,
  refreshVars,
  otpVars,
  resetVars,
  accountVars>>

\* The favorites API with one request at a time.
NextFav ==
  \/ \E u \in Users, s \in FavSalonInputs :
        addFavorite(u, s) /\ UNCHANGED notFavVars
  \/ \E u \in Users, s \in FavSalonInputs :
        toggleFavorite(u, s) /\ UNCHANGED notFavVars
  \/ \E u \in Users, id \in FavIdInputs :
        removeFavorite(u, id) /\ UNCHANGED notFavVars

\* The same handlers with their awaits as scheduling points: a request reads
\* `existing` (findOne), other requests may run, then it writes and responds.
InFlight(op, u, s, existing) ==
  [op |-> op, user |-> u, salon |-> s, existing |-> existing]

\* addFavorite up to `await Favorite.findOne(...)` and the check of its result
addFavoriteFind(u, s) ==
  IF s = None \/ FavoriteFindOne(u, s) # 0
    THEN /\ Respond(FavResponse("addFavorite", 400, u, s))
         /\ UNCHANGED <<favorites, pending>>
    ELSE /\ BagCardinality(pending) < MaxInFlight
         /\ pending' = pending (+) SetToBag({InFlight("addFavorite", u, s, 0)})
         /\ UNCHANGED <<favorites, favResp>>

\* toggleFavorite up to `await Favorite.findOne(...)`
toggleFavoriteFind(u, s) ==
  IF s = None
    THEN /\ Respond(FavResponse("toggleFavorite", 400, u, s))
         /\ UNCHANGED <<favorites, pending>>
    ELSE /\ BagCardinality(pending) < MaxInFlight
         /\ pending' = pending (+)
              SetToBag({InFlight("toggleFavorite", u, s, FavoriteFindOne(u, s))})
         /\ UNCHANGED <<favorites, favResp>>

\* addFavorite from `await Favorite.create(...)` to its response
addFavoriteWrite(p) ==
  /\ p.op = "addFavorite"
  /\ pending' = pending (-) SetToBag({p})
  /\ AddFavoriteCreate(p.user, p.salon)

\* toggleFavorite from deleteOne / create to its response
toggleFavoriteWrite(p) ==
  /\ p.op = "toggleFavorite"
  /\ pending' = pending (-) SetToBag({p})
  /\ ToggleFavoriteWrite(p.user, p.salon, p.existing)

\* The interleaved requests all name the same salon (or none): requests for
\* different salons touch different documents and index keys.
RaceSalonInputs == {"s1", None}

NextFavRace ==
  \/ \E u \in Users, s \in RaceSalonInputs :
        addFavoriteFind(u, s) /\ UNCHANGED notFavVars
  \/ \E u \in Users, s \in RaceSalonInputs :
        toggleFavoriteFind(u, s) /\ UNCHANGED notFavVars
  \/ \E p \in BagToSet(pending) : addFavoriteWrite(p) /\ UNCHANGED notFavVars
  \/ \E p \in BagToSet(pending) : toggleFavoriteWrite(p) /\ UNCHANGED notFavVars
  \/ \E u \in Users, id \in FavIdInputs :
        removeFavorite(u, id) /\ UNCHANGED notFavVars

----------------------------------------------------------------------------
(* Claims about favorites *)

\* The Favorite documents stored for the pair (u, s).
FavoritesOf(u, s) == {d \in favorites : d.user = u /\ d.salon = s}

\* C5: when an addFavorite request is followed directly by another addFavorite
\* of the same user for the same salon, the second is answered 400 and exactly
\* one Favorite of the pair is stored afterwards; the first was answered 201
\* (created) unless the pair was already a favorite before it.
C5_SecondAddFavoriteConflicts ==
  [][(/\ favResp.op = "addFavorite"
      /\ favResp'.op = "addFavorite"
      /\ favResp'.user = favResp.user
      /\ favResp'.salon = favResp.salon
      /\ favResp.salon # None) =>
       /\ favResp'.code = 400
       /\ favorites' = favorites
       /\ Cardinality(FavoritesOf(favResp.user, favResp.salon)) = 1
       /\ ~favResp.existed => favResp.code = 201]_vars

\* C5 witness: an addFavorite answered 201 was followed by the same request,
\* which was answered 400, and one Favorite of the pair is stored.
C5_Witness ==
  /\ favResp.op = "addFavorite"
  /\ favResp.code = 400
  /\ favResp.repeat = 201
  /\ Cardinality(FavoritesOf(favResp.user, favResp.salon)) = 1

\* A request in flight that is about to insert: addFavorite, or toggleFavorite
\* that read no existing favorite.
Inserts(p) == p.op = "addFavorite" \/ p.existing = 0

\* C6: with addFavorite and toggleFavorite requests interleaving between their
\* findOne and their write, no pair ever has more than one Favorite document,
\* and a request whose insert finds the pair already stored is answered 400
\* and leaves the collection unchanged.
C6_AtMostOneFavoritePerPair ==
  /\ [](\A u \in Users, s \in FavSalons : Cardinality(FavoritesOf(u, s)) <= 1)
  /\ [][\A p \in BagToSet(pending) :
          (/\ pending' = pending (-) SetToBag({p})
           /\ Inserts(p)
           /\ FavoritesOf(p.user, p.salon) # {}) =>
             /\ favResp'.code = 400
             /\ favorites' = favorites]_vars

\* C6 witness: a toggleFavorite that had read no existing favorite lost the
\* race: at its insert the pair was stored, and it was answered 400.
C6_Witness ==
  /\ favResp.op = "toggleFavorite"
  /\ favResp.salon # None
  /\ favResp.code = 400
  /\ favResp.existed
  /\ Cardinality(FavoritesOf(favResp.user, favResp.salon)) = 1

----------------------------------------------------------------------------
(* User addresses (controllers/user.controller.js, User model) *)

\* JSON values a client may send as req.body.isDefault, written as in
\* JavaScript; "undefined" is the absent field.
IsDefaultInputs ==
  {"true", "false", "undefined", "null", "'false'", "'yes'", "'maybe'", "''"}

\* JavaScript truthiness, as in `if (isDefault)`
Truthy(v) == v \in {"true", "'false'", "'yes'", "'maybe'"}

\* The cast of the schema type `isDefault: { type: Boolean, default: false }`:
\* true and 'yes' become true, false and 'false' become false, an absent value
\* takes the default, null is kept (and is read as falsy, stored here as
\* false), any other value fails validation on save.
CastBoolean(v) ==
  CASE v \in {"true", "'yes'"} -> "true"
    [] v \in {"false", "'false'", "undefined", "null"} -> "false"
    [] OTHER -> "error"

\* Mutant of ClearDefaults: the other defaults are never unset.
ClearDefaults_Never(addrs, isDefault) == addrs

\* if (isDefault) { user.addresses.forEach(addr => { addr.isDefault = false }) }
ClearDefaults(addrs, isDefault) ==
  IF Truthy(isDefault)
    THEN [i \in DOMAIN addrs |-> [addrs[i] EXCEPT !.isDefault = FALSE]]
    ELSE addrs

\* user.addresses.id(addressId): the position of the subdocument, 0 for null
AddressIndex(addressId) ==
  IF \E i \in DOMAIN addresses : addresses[i].id = addressId
    THEN CHOOSE i \in DOMAIN addresses : addresses[i].id = addressId
    ELSE 0

\* The _id of a pushed subdocument: the least id no stored address has.
FreshAddressId ==
  LET used == {addresses[i].id : i \in DOMAIN addresses}
  IN CHOOSE i \in 1..(Cardinality(used) + 1) :
       i \notin used /\ \A j \in 1..(i - 1) : j \in used

\* The _id of the address that is default, 0 when there is none (history).
DefaultId ==
  IF \E i \in DOMAIN addresses : addresses[i].isDefault
    THEN addresses[CHOOSE i \in DOMAIN addresses : addresses[i].isDefault].id
    ELSE 0

\* The response, with the address and the isDefault value its request named
\* and, as history, the default address before the request.
AddrResponse(op, code, id, isDefault) ==
  [op |-> op, code |-> code, id |-> id, isDefault |-> isDefault,
   wasDefault |-> DefaultId]

\* POST /api/users/addresses.  hasStreetAndCity: the body has street and city.
addAddress(hasStreetAndCity, isDefault) ==
  LET cleared == ClearDefaults(addresses, isDefault)
      makeDefault == IF Len(addresses) = 0 THEN "true" ELSE isDefault
  IN
  IF ~hasStreetAndCity
    THEN /\ addrResp' = AddrResponse("addAddress", 400, 0, isDefault)
         /\ UNCHANGED addresses
  ELSE IF CastBoolean(makeDefault) = "error"
    THEN /\ addrResp' = AddrResponse("addAddress", 400, 0, isDefault)
         /\ UNCHANGED addresses
  ELSE /\ Len(addresses) < MaxAddresses
       /\ addresses' = Append(cleared,
            [id |-> FreshAddressId,
             isDefault |-> CastBoolean(makeDefault) = "true"])
       /\ addrResp' = AddrResponse("addAddress", 201, FreshAddressId, isDefault)

\* PATCH /api/users/addresses/:addressId
updateAddress(addressId, isDefault) ==
  LET i == AddressIndex(addressId)
      cleared == ClearDefaults(addresses, isDefault)
  IN
  IF i = 0
    THEN /\ addrResp' = AddrResponse("updateAddress", 404, addressId, isDefault)
         /\ UNCHANGED addresses
  ELSE IF isDefault # "undefined" /\ CastBoolean(isDefault) = "error"
    THEN /\ addrResp' = AddrResponse("updateAddress", 400, addressId, isDefault)
         /\ UNCHANGED addresses
  ELSE /\ addresses' =
            IF isDefault # "undefined"
              THEN [cleared EXCEPT
                      ![i].isDefault = CastBoolean(isDefault) = "true"]
              ELSE cleared
       /\ addrResp' = AddrResponse("updateAddress", 200, addressId, isDefault)

\* DELETE /api/users/addresses/:addressId
deleteAddress(addressId) ==
  LET i == AddressIndex(addressId)
      pulled == SubSeq(addresses, 1, i - 1) \o
                SubSeq(addresses, i + 1, Len(addresses))
  IN
  IF i = 0
    THEN /\ addrResp' = AddrResponse("deleteAddress", 404, addressId, "undefined")
         /\ UNCHANGED addresses
  ELSE /\ addresses' =
            IF addresses[i].isDefault /\ Len(pulled) > 0
              THEN [pulled EXCEPT ![1].isDefault = TRUE]
              ELSE pulled
       /\ addrResp' = AddrResponse("deleteAddress", 200, addressId, "undefined")

InitAddr ==
  /\ addresses = <<>>
  /\ addrResp = [op |-> "none", code |-> 0, id |-> 0, isDefault |-> "undefined",
                 wasDefault |-> 0]

\* req.params.addressId: the _id of a stored address, or an id that is not stored
AddressIdInputs == {0} \cup {addresses[i].id : i \in DOMAIN addresses}

notAddrVars == <<bookingVars, favVars, filterVars, searchVars,
  pagVars,
  listVars,
  fmtVars,
  shortVars,
  authVars,
  textVars,
  raceVars,
  slotVars,
  refreshVars,
  otpVars,
  resetVars,
  accountVars>>

NextAddr ==
  \/ \E b \in BOOLEAN, d \in IsDefaultInputs :
        addAddress(b, d) /\ UNCHANGED notAddrVars
  \/ \E a \in AddressIdInputs, d \in IsDefaultInputs :
        updateAddress(a, d) /\ UNCHANGED notAddrVars
  \/ \E a \in AddressIdInputs : deleteAddress(a) /\ UNCHANGED notAddrVars

----------------------------------------------------------------------------
(* Claims about addresses *)

\* C7: after any sequence of addAddress, updateAddress and deleteAddress
\* requests, with any isDefault values, at most one address of the user has
\* isDefault = true.
C7_AtMostOneDefaultAddress ==
  Cardinality({i \in DOMAIN addresses : addresses[i].isDefault}) <= 1

\* C7 witness: an updateAddress made an address the default while another
\* stored address was the default, and that other address is still stored.
C7_Witness ==
  /\ addrResp.op = "updateAddress"
  /\ addrResp.code = 200
  /\ Truthy(addrResp.isDefault)
  /\ addrResp.wasDefault # 0
  /\ addrResp.wasDefault # addrResp.id
  /\ \E i \in DOMAIN addresses : addresses[i].id = addrResp.wasDefault
  /\ \E i \in DOMAIN addresses :
       addresses[i].id = addrResp.id /\ addresses[i].isDefault

----------------------------------------------------------------------------
(* Search filters (utils/searchHelpers.js, Salon and Service models) *)

RatingMax == 5        \* averageRating: { min: 0, max: 5 }
PriceLevelMin == 1    \* priceLevel: { min: 1, max: 4 }
PriceLevelMax == 4

Modes == {"toSalon", "toHome", "both"}

Audiences == {"men", "women", "kids", "unisex"}

\* A string field that is absent from the parameters.
Absent == "undefined"

\* JavaScript values of the numeric parameters: undefined, a number, NaN.
Undefined == [t |-> "undefined"]

Num(n) == [t |-> "number", v |-> n]

NaN == [t |-> "NaN"]

\* The audience arrays of the catalogue's documents.
AudienceSets ==
  {{}, {"men"}, {"women", "kids"}, {"unisex"}, {"men", "unisex"}}

\* Salon documents a query may meet.
SalonCatalogue ==
  [mode : Modes, audience : AudienceSets, isActive : BOOLEAN,
   averageRating : 0..RatingMax, priceLevel : PriceLevelMin..PriceLevelMax]

\* Service documents a query may meet.
ServiceCatalogue ==
  [mode : Modes, audience : AudienceSets, isActive : BOOLEAN,
   price : 0..MaxPrice]

\* { $in: values }
In(values) == [t |-> "$in", in |-> values]

\* { $gte: min, $lte: max }, each bound only when it is not undefined; no
\* condition at all when both are undefined.
RangeCond(min, max) == [gte |-> min, lte |-> max]

\* Mutant of buildSalonFilter: the audience filter forgets 'unisex'.
buildSalonFilter_ExactAudience(params) ==
  [isActive |-> TRUE,
   mode |-> IF params.mode = Absent THEN Undefined
            ELSE IF params.mode = "both"
              THEN In({"both", "toSalon", "toHome"})
              ELSE In({params.mode, "both"}),
   audience |-> IF params.audience = Absent THEN Undefined
                ELSE In({params.audience}),
   averageRating |-> RangeCond(params.minRating, params.maxRating),
   priceLevel |-> RangeCond(params.minPriceLevel, params.maxPriceLevel)]

\* buildSalonFilter(params): the MongoDB filter for salons
buildSalonFilter(params) ==
  [isActive |-> TRUE,
   mode |-> IF params.mode = Absent THEN Undefined
            ELSE IF params.mode = "both"
              THEN In({"both", "toSalon", "toHome"})
              ELSE In({params.mode, "both"}),
   audience |-> IF params.audience = Absent THEN Undefined
                ELSE In({params.audience, "unisex"}),
   averageRating |-> RangeCond(params.minRating, params.maxRating),
   priceLevel |-> RangeCond(params.minPriceLevel, params.maxPriceLevel)]

\* buildServiceFilter(params): the MongoDB filter for services
buildServiceFilter(params) ==
  [isActive |-> TRUE,
   mode |-> IF params.mode = Absent THEN Undefined
            ELSE IF params.mode = "both"
              THEN In({"both", "toSalon", "toHome"})
              ELSE In({params.mode, "both"}),
   audience |-> IF params.audience = Absent THEN Undefined
                ELSE In({params.audience, "unisex"}),
   price |-> RangeCond(params.minPrice, params.maxPrice)]

\* MongoDB's match of a field against { $in: list }: a scalar field matches
\* when its value is in the list, an array field when one of its elements is.
\* values is the set of the field's values.
MatchIn(cond, values) ==
  cond.t = "undefined" \/ values \cap cond.in # {}

\* MongoDB's match of a number against { $gte, $lte }; a comparison with NaN
\* matches no number.
MatchRange(cond, x) ==
  /\ cond.gte.t = "number" => x >= cond.gte.v
  /\ cond.lte.t = "number" => x <= cond.lte.v
  /\ cond.gte.t # "NaN" /\ cond.lte.t # "NaN"

\* Salon.find(filter) returns doc
MatchSalon(doc, filter) ==
  /\ doc.isActive = filter.isActive
  /\ MatchIn(filter.mode, {doc.mode})
  /\ MatchIn(filter.audience, doc.audience)
  /\ MatchRange(filter.averageRating, doc.averageRating)
  /\ MatchRange(filter.priceLevel, doc.priceLevel)

\* Service.find(filter) returns doc
MatchService(doc, filter) ==
  /\ doc.isActive = filter.isActive
  /\ MatchIn(filter.mode, {doc.mode})
  /\ MatchIn(filter.audience, doc.audience)
  /\ MatchRange(filter.price, doc.price)

\* The mode and audience parameters of a builder call.
ModeParams == Modes \cup {Absent}

AudienceParams == Audiences \cup {Absent}

\* buildSalonFilter({ mode, audience }) applied to a salon document
ApplySalonFilter ==
  /\ filt.kind = "idle"
  /\ \E mode \in ModeParams, audience \in AudienceParams, doc \in SalonCatalogue :
     filt' = [kind |-> "salon", mode |-> mode, audience |-> audience,
              doc |-> [mode |-> doc.mode, audience |-> doc.audience,
                       isActive |-> doc.isActive],
              matches |-> MatchSalon(doc, buildSalonFilter(
                  [mode |-> mode, audience |-> audience,
                   minRating |-> Undefined, maxRating |-> Undefined,
                   minPriceLevel |-> Undefined, maxPriceLevel |-> Undefined]))]

\* buildServiceFilter({ mode, audience }) applied to a service document
ApplyServiceFilter ==
  /\ filt.kind = "idle"
  /\ \E mode \in ModeParams, audience \in AudienceParams, doc \in ServiceCatalogue :
     filt' = [kind |-> "service", mode |-> mode, audience |-> audience,
              doc |-> [mode |-> doc.mode, audience |-> doc.audience,
                       isActive |-> doc.isActive],
              matches |-> MatchService(doc, buildServiceFilter(
                  [mode |-> mode, audience |-> audience,
                   minPrice |-> Undefined, maxPrice |-> Undefined]))]

InitFilter ==
  filt = [kind |-> "idle", mode |-> Absent, audience |-> Absent,
          doc |-> [mode |-> "toSalon", audience |-> {}, isActive |-> FALSE],
          matches |-> FALSE]

notFilterVars == <<bookingVars, favVars, addrVars, searchVars,
  pagVars,
  listVars,
  fmtVars,
  shortVars,
  authVars,
  textVars,
  raceVars,
  slotVars,
  refreshVars,
  otpVars,
  resetVars,
  accountVars>>

NextFilter ==
  \/ ApplySalonFilter /\ UNCHANGED notFilterVars
  \/ ApplyServiceFilter /\ UNCHANGED notFilterVars

----------------------------------------------------------------------------
(* Claims about the search filters *)

\* The audience condition of a filter admits the document.
AudienceAdmits(a, doc) ==
  a = Absent \/ a \in doc.audience \/ "unisex" \in doc.audience

\* The mode condition of a filter admits the document.
ModeAdmits(m, doc) ==
  m \in {Absent, "both"} \/ doc.mode = m \/ doc.mode = "both"

\* C8: for the filters of buildSalonFilter and buildServiceFilter and an active
\* record: a record whose audience contains unisex passes every audience
\* filter, a record with mode both passes the mode filters toSalon and toHome,
\* a record passes a filter for an audience or mode it carries, and it does not
\* pass a filter for another specific value unless it carries the universal
\* tag (unisex, both).  The record matches exactly when it passes both.
C8_UniversalTagsMatch ==
  (filt.kind # "idle" /\ filt.doc.isActive) =>
     (filt.matches <=>
        AudienceAdmits(filt.audience, filt.doc) /\ ModeAdmits(filt.mode, filt.doc))

\* C8 witness: a salon tagged men and unisex, with mode both, was matched by
\* the filter for audience women and mode toHome.
C8_Witness ==
  /\ filt.kind = "salon"
  /\ filt.audience = "women"
  /\ filt.mode = "toHome"
  /\ filt.doc.audience = {"men", "unisex"}
  /\ filt.doc.mode = "both"
  /\ filt.doc.isActive
  /\ filt.matches

----------------------------------------------------------------------------
(* Search routes: validate(schema) and the controllers                      *)
(* (middleware/validate.js, validations/search.validation.js,               *)
(*  salon, service and search controllers)                                  *)

LatMax == 90          \* lat: min(-90).max(90)
LngMax == 180         \* lng: min(-180).max(180)

\* Raw query-string values of a numeric parameter: absent, the text of a
\* number, or a text that is no number (Number(text) is NaN).
RatingInputs == {Undefined, NaN} \cup {Num(n) : n \in 0..(RatingMax + 1)}

PriceLevelInputs == {Undefined} \cup {Num(n) : n \in 0..(PriceLevelMax + 1)}

PriceInputs == {Undefined, NaN, Num(-1)} \cup {Num(n) : n \in 0..(MaxPrice + 1)}

LatInputs == {Undefined, NaN, Num(0), Num(LatMax + 1)}

LngInputs == {Undefined, Num(0), Num(LngMax + 1)}

ModeInputs == Modes \cup {Absent, "bogus"}

AudienceInputs == Audiences \cup {Absent, "bogus"}

\* q of GET /search: absent, empty, blank, a word
QInputs == {Absent, "", " ", "hair"}

\* A query with no parameter.
EmptyQuery ==
  [lat |-> Undefined, lng |-> Undefined,
   minRating |-> Undefined, maxRating |-> Undefined,
   minPriceLevel |-> Undefined, maxPriceLevel |-> Undefined,
   minPrice |-> Undefined, maxPrice |-> Undefined,
   mode |-> Absent, audience |-> Absent, q |-> Absent]

\* Queries of GET /salons: location with rating bounds, price-level bounds,
\* or mode with audience; the parameters not named are absent.
SalonQueries ==
  {[EmptyQuery EXCEPT !.lat = a, !.lng = b, !.minRating = c, !.maxRating = d] :
     a \in LatInputs, b \in LngInputs, c \in RatingInputs, d \in RatingInputs}
  \cup {[EmptyQuery EXCEPT !.minPriceLevel = a, !.maxPriceLevel = b] :
     a \in PriceLevelInputs, b \in PriceLevelInputs}
  \cup {[EmptyQuery EXCEPT !.mode = a, !.audience = b] :
     a \in ModeInputs, b \in AudienceInputs}

\* Queries of GET /services: price bounds, or mode with audience.
ServiceQueries ==
  {[EmptyQuery EXCEPT !.minPrice = a, !.maxPrice = b] :
     a \in PriceInputs, b \in PriceInputs}
  \cup {[EmptyQuery EXCEPT !.mode = a, !.audience = b] :
     a \in ModeInputs, b \in AudienceInputs}

\* Queries of GET /search: q, location, mode and audience.
UnifiedQueries ==
  {[EmptyQuery EXCEPT !.q = a, !.lat = b, !.lng = c, !.mode = d,
                      !.audience = e] :
     a \in QInputs, b \in LatInputs, c \in LngInputs, d \in ModeInputs,
     e \in AudienceInputs}

\* A Zod issue: its path joined with '.', its message (the issue code stands
\* for Zod's default message), and whether it aborts the parse.
Issue(field, message, fatal) ==
  [field |-> field, message |-> message, fatal |-> fatal]

\* z.coerce.number().min(min).max(max).optional() on a raw value; max is
\* Undefined when the schema sets no maximum.
NumberIssues(field, raw, min, max) ==
  IF raw.t = "undefined" THEN {}
  ELSE IF raw.t = "NaN" THEN {Issue(field, "invalid_type", TRUE)}
  ELSE IF raw.v < min THEN {Issue(field, "too_small", FALSE)}
  ELSE IF max.t = "number" /\ raw.v > max.v
    THEN {Issue(field, "too_big", FALSE)}
  ELSE {}

\* z.enum(values).optional()
EnumIssues(field, raw, values) ==
  IF raw = Absent \/ raw \in values THEN {}
  ELSE {Issue(field, "invalid_enum_value", TRUE)}

\* z.string().min(1).max(200)
QIssues(raw) ==
  IF raw = Absent THEN {Issue("q", "invalid_type", TRUE)}
  ELSE IF raw = "" THEN {Issue("q", "too_small", FALSE)}
  ELSE {}

\* The refinement on lat and lng (no path: the issue's field is '').
LatLngIssues(q) ==
  IF (q.lat.t # "undefined" /\ q.lng.t = "undefined")
     \/ (q.lng.t # "undefined" /\ q.lat.t = "undefined")
    THEN {Issue("", "Both lat and lng must be provided for geo search", FALSE)}
    ELSE {}

\* A refinement `min <= max if both are provided` (no path).
MinMaxIssues(min, max, message) ==
  IF min.t = "number" /\ max.t = "number" /\ ~(min.v <= max.v)
    THEN {Issue("", message, FALSE)}
    ELSE {}

\* The issues of the object schema of a route, before its refinements.
ObjectIssues(route, q) ==
  CASE route = "salons" ->
         NumberIssues("lat", q.lat, -LatMax, Num(LatMax))
         \cup NumberIssues("lng", q.lng, -LngMax, Num(LngMax))
         \cup EnumIssues("mode", q.mode, Modes)
         \cup EnumIssues("audience", q.audience, Audiences)
         \cup NumberIssues("minRating", q.minRating, 0, Num(RatingMax))
         \cup NumberIssues("maxRating", q.maxRating, 0, Num(RatingMax))
         \cup NumberIssues("minPriceLevel", q.minPriceLevel, PriceLevelMin,
                           Num(PriceLevelMax))
         \cup NumberIssues("maxPriceLevel", q.maxPriceLevel, PriceLevelMin,
                           Num(PriceLevelMax))
    [] route = "services" ->
         EnumIssues("mode", q.mode, Modes)
         \cup EnumIssues("audience", q.audience, Audiences)
         \cup NumberIssues("minPrice", q.minPrice, 0, Undefined)
         \cup NumberIssues("maxPrice", q.maxPrice, 0, Undefined)
    [] route = "search" ->
         QIssues(q.q)
         \cup NumberIssues("lat", q.lat, -LatMax, Num(LatMax))
         \cup NumberIssues("lng", q.lng, -LngMax, Num(LngMax))
         \cup EnumIssues("mode", q.mode, Modes)
         \cup EnumIssues("audience", q.audience, Audiences)

\* The issues of the refinements of a route's schema.
RefinementIssues(route, q) ==
  CASE route = "salons" ->
         LatLngIssues(q)
         \cup MinMaxIssues(q.minRating, q.maxRating,
                "minRating must be less than or equal to maxRating")
         \cup MinMaxIssues(q.minPriceLevel, q.maxPriceLevel,
                "minPriceLevel must be less than or equal to maxPriceLevel")
    [] route = "services" ->
         MinMaxIssues(q.minPrice, q.maxPrice,
                "minPrice must be less than or equal to maxPrice")
    [] route = "search" -> LatLngIssues(q)

\* schema.query.parseAsync(req.query): the issues of the ZodError, {} when the
\* query parses.  A refinement runs only when the object did not abort.
ParseIssues(route, q) ==
  LET base == ObjectIssues(route, q)
  IN IF \E i \in base : i.fatal
       THEN base
       ELSE base \cup RefinementIssues(route, q)

\* error.errors.map((e) => ({ field: e.path.join('.'), message: e.message }))
ErrorList(issues) ==
  {[field |-> i.field, message |-> i.message] : i \in issues}

NoDoc == [kind |-> "none"]

\* A request that has arrived and not been handled yet.
NewRequest(route, q) ==
  [route |-> route, query |-> q, phase |-> "received", code |-> 0,
   message |-> "", errors |-> {}, ran |-> FALSE, doc |-> NoDoc,
   returned |-> FALSE]

\* A client sends GET /api/salons, /api/services or /api/search with one of
\* the queries.
SearchRequest(route, queries) ==
  /\ search.phase = "idle"
  /\ \E q \in queries : search' = NewRequest(route, q)

\* validate(schema): parse req.query; on a ZodError throw ApiError(400,
\* 'Validation Error', errors), else replace req.query and call next().  The
\* middleware is an async function that Express 4 calls without awaiting, so
\* the thrown ApiError is an unhandled rejection: nothing calls next(err),
\* errorHandler does not run and no response is sent.
validate ==
  /\ search.phase = "received"
  /\ LET issues == ParseIssues(search.route, search.query)
     IN IF issues # {}
          THEN search' = [search EXCEPT !.phase = "done",
                            !.message = "unhandled rejection",
                            !.errors = ErrorList(issues)]
          ELSE search' = [search EXCEPT !.phase = "validated"]

\* `x ? parseFloat(x) : undefined` on a validated (coerced) number: 0 is falsy.
TruthyNumber(x) == IF x.t = "number" /\ x.v # 0 THEN x ELSE Undefined

\* GET /api/salons.  doc: a salon of the collection; inPage: the document is
\* within the radius of a geo search and on the requested page.
getSalons ==
  /\ search.phase = "validated" /\ search.route = "salons"
  /\ \E doc \in SalonCatalogue, inPage \in BOOLEAN :
     LET q == search.query
         filter == buildSalonFilter(
           [mode |-> q.mode, audience |-> q.audience,
            minRating |-> TruthyNumber(q.minRating),
            maxRating |-> TruthyNumber(q.maxRating),
            minPriceLevel |-> TruthyNumber(q.minPriceLevel),
            maxPriceLevel |-> TruthyNumber(q.maxPriceLevel)])
     IN search' = [search EXCEPT !.phase = "done", !.code = 200,
                     !.ran = TRUE,
                     !.doc = [kind |-> "salon", d |-> doc],
                     !.returned = inPage /\ MatchSalon(doc, filter)]

\* GET /api/services
getServices ==
  /\ search.phase = "validated" /\ search.route = "services"
  /\ \E doc \in ServiceCatalogue, inPage \in BOOLEAN :
     LET q == search.query
         filter == buildServiceFilter(
           [mode |-> q.mode, audience |-> q.audience,
            minPrice |-> TruthyNumber(q.minPrice),
            maxPrice |-> TruthyNumber(q.maxPrice)])
     IN search' = [search EXCEPT !.phase = "done", !.code = 200,
                     !.ran = TRUE,
                     !.doc = [kind |-> "service", d |-> doc],
                     !.returned = inPage /\ MatchService(doc, filter)]

\* GET /api/search.  doc: a salon or a service of the collections; inPage: the document matches
\* the text, lies within the radius and is among the first `limit` results.
unifiedSearch(kind, catalogue) ==
  /\ search.phase = "validated" /\ search.route = "search"
  /\ \E doc \in catalogue, inPage \in BOOLEAN :
     LET q == search.query
         modeFilter == IF q.mode = Absent THEN Undefined
                       ELSE In({q.mode, "both"})
         audienceFilter == IF q.audience = Absent THEN Undefined
                           ELSE In({q.audience, "unisex"})
     IN IF q.q = " "
          THEN search' = [search EXCEPT !.phase = "done", !.code = 400,
                            !.message = "Search query (q) is required",
                            !.ran = TRUE]
          ELSE search' = [search EXCEPT !.phase = "done", !.code = 200,
                            !.ran = TRUE,
                            !.doc = [kind |-> kind, d |-> doc],
                            !.returned = /\ inPage
                                         /\ doc.isActive
                                         /\ MatchIn(modeFilter, {doc.mode})
                                         /\ MatchIn(audienceFilter, doc.audience)]

InitSearch ==
  search = [NewRequest("none", EmptyQuery) EXCEPT !.phase = "idle"]

notSearchVars == <<bookingVars, favVars, addrVars, filterVars,
  pagVars,
  listVars,
  fmtVars,
  shortVars,
  authVars,
  textVars,
  raceVars,
  slotVars,
  refreshVars,
  otpVars,
  resetVars,
  accountVars>>

NextSearch ==
  \/ SearchRequest("salons", SalonQueries) /\ UNCHANGED notSearchVars
  \/ SearchRequest("services", ServiceQueries) /\ UNCHANGED notSearchVars
  \/ SearchRequest("search", UnifiedQueries) /\ UNCHANGED notSearchVars
  \/ validate /\ UNCHANGED notSearchVars
  \/ getSalons /\ UNCHANGED notSearchVars
  \/ getServices /\ UNCHANGED notSearchVars
  \/ unifiedSearch("salon", SalonCatalogue) /\ UNCHANGED notSearchVars
  \/ unifiedSearch("service", ServiceCatalogue) /\ UNCHANGED notSearchVars

----------------------------------------------------------------------------
(* Claims about the search routes *)

\* x lies within the bounds that are given (a bound is given when the query
\* carries a number for it).
Within(min, max, x) ==
  /\ min.t = "number" => min.v <= x
  /\ max.t = "number" => x <= max.v

\* C9: every salon returned by GET /salons has its averageRating within the
\* minRating/maxRating bounds the query gives and its priceLevel within the
\* minPriceLevel/maxPriceLevel bounds; every service returned by GET /services
\* has its price within the minPrice/maxPrice bounds.  One bound alone applies
\* one-sidedly.  (A query that reaches the controller has passed the schema:
\* its bounds are in range and min <= max.)
C9_ReturnedWithinBounds ==
  (search.phase = "done" /\ search.returned) =>
     LET q == search.query
         d == search.doc.d
     IN /\ search.route = "salons" =>
             /\ Within(q.minRating, q.maxRating, d.averageRating)
             /\ Within(q.minPriceLevel, q.maxPriceLevel, d.priceLevel)
        /\ search.route = "services" =>
             Within(q.minPrice, q.maxPrice, d.price)

\* The cross-field rules a query breaks, each as the set of its fields.
CrossFieldViolations(route, q) ==
  {v \in {{"lat", "lng"}, {"minRating", "maxRating"},
          {"minPriceLevel", "maxPriceLevel"}, {"minPrice", "maxPrice"}} :
     \/ /\ v = {"lat", "lng"} /\ route \in {"salons", "search"}
        /\ (q.lat.t = "undefined") # (q.lng.t = "undefined")
     \/ /\ v = {"minRating", "maxRating"} /\ route = "salons"
        /\ q.minRating.t = "number" /\ q.maxRating.t = "number"
        /\ q.minRating.v > q.maxRating.v
     \/ /\ v = {"minPriceLevel", "maxPriceLevel"} /\ route = "salons"
        /\ q.minPriceLevel.t = "number" /\ q.maxPriceLevel.t = "number"
        /\ q.minPriceLevel.v > q.maxPriceLevel.v
     \/ /\ v = {"minPrice", "maxPrice"} /\ route = "services"
        /\ q.minPrice.t = "number" /\ q.maxPrice.t = "number"
        /\ q.minPrice.v > q.maxPrice.v}

\* Everything a query violates: each field whose value its schema refuses, and
\* each cross-field rule it breaks.
Violations(route, q) ==
  {{i.field} : i \in ObjectIssues(route, q)} \cup CrossFieldViolations(route, q)

\* C10: a GET /salons, /services or /search request whose query violates its
\* schema is answered 400 'Validation Error', the errors name a field of every
\* violation, and the controller (hence any database query) does not run.
C10_InvalidQueryAnswered400 ==
  (search.phase = "done" /\ Violations(search.route, search.query) # {}) =>
     /\ search.code = 400
     /\ search.message = "Validation Error"
     /\ ~search.ran
     /\ \A v \in Violations(search.route, search.query) :
          \E e \in search.errors : e.field \in v

----------------------------------------------------------------------------
(* Pagination helpers (utils/searchHelpers.js) *)

\* Math.ceil(a / b) for integers a >= 0 and b >= 1
MathCeilDiv(a, b) == IF a % b = 0 THEN a \div b ELSE (a \div b) + 1

\* Mutant of buildPaginationResponse: the page count is rounded down.
buildPaginationResponse_Floor(page, limit, total) ==
  LET totalPages == total \div limit
  IN [page |-> page, limit |-> limit, total |-> total,
      totalPages |-> totalPages,
      hasNextPage |-> page < totalPages,
      hasPrevPage |-> page > 1]

\* buildPaginationResponse(page, limit, total)
buildPaginationResponse(page, limit, total) ==
  LET totalPages == MathCeilDiv(total, limit)
  IN [page |-> page, limit |-> limit, total |-> total,
      totalPages |-> totalPages,
      hasNextPage |-> page < totalPages,
      hasPrevPage |-> page > 1]

\* calculateSkip(page, limit)
calculateSkip(page, limit) == (page - 1) * limit

\* One call of buildPaginationResponse with integers page >= 1, limit >= 1 and
\* total >= 0.
CallBuildPaginationResponse ==
  \E page \in 1..MaxPage, limit \in 1..MaxLimit, total \in 0..MaxTotal :
     pag' = [called |-> TRUE, page |-> page, limit |-> limit, total |-> total,
             out |-> buildPaginationResponse(page, limit, total)]

InitPagination ==
  pag = [called |-> FALSE, page |-> 1, limit |-> 1, total |-> 0,
         out |-> buildPaginationResponse(1, 1, 0)]

notPagVars == <<bookingVars, favVars, addrVars, filterVars, searchVars,
  listVars,
  fmtVars,
  shortVars,
  authVars,
  textVars,
  raceVars,
  slotVars,
  refreshVars,
  otpVars,
  resetVars,
  accountVars>>

NextPagination ==
  \/ CallBuildPaginationResponse /\ UNCHANGED notPagVars

----------------------------------------------------------------------------
(* Claims about the pagination helpers *)

\* C13: for integers page >= 1, limit >= 1 and total >= 0,
\* buildPaginationResponse returns totalPages = ceil(total / limit) (the least
\* integer k with k * limit >= total), hasNextPage true iff page * limit <
\* total, hasPrevPage true iff page > 1, and echoes page, limit and total.
C13_PaginationResponse ==
  pag.called =>
     /\ pag.out.page = pag.page
     /\ pag.out.limit = pag.limit
     /\ pag.out.total = pag.total
     /\ pag.out.totalPages * pag.limit >= pag.total
     /\ (pag.out.totalPages - 1) * pag.limit < pag.total
     /\ pag.out.hasNextPage <=> (pag.page * pag.limit < pag.total)
     /\ pag.out.hasPrevPage <=> (pag.page > 1)

\* C13 witness: a middle page of a total that the limit does not divide: there
\* is a previous and a next page, and the last page is partly filled.
C13_Witness ==
  /\ pag.called
  /\ pag.page > 1
  /\ pag.total % pag.limit # 0
  /\ pag.out.hasNextPage
  /\ pag.out.hasPrevPage
  /\ pag.out.totalPages = pag.page + 1

----------------------------------------------------------------------------
(* Paginated, sorted lists: GET /api/salons, /api/services and /api/shorts *)
(* (salon, service and short controllers, utils/searchHelpers.js).  Lengths *)
(* (radius, distance from the query point) are counted in tenths of a metre, *)
(* so that a number with a fractional part can be told from its integer part. *)
(* The routes only read the collections, so one request is followed.         *)

RadiusMin == 100          \* radius: min(100)
RadiusMax == 20000        \* radius: max(20000)
RadiusDefault == 5000     \* radius: default(5000)
SalonLimitDefault == 20   \* salonSearchSchema limit: default(20)
ServiceLimitDefault == 50 \* serviceSearchSchema limit: default(50)
ShortLimitDefault == 10   \* getShorts: limit = 10
ShortLimitCap == 50       \* getShorts: Math.min(parseInt(limit), 50)

\* n metres, in tenths of a metre
Metres(n) == n * 10

\* parseInt(x) of a non-negative number x given in tenths: its integer part.
parseInt(x) == x \div 10

\* { $round: [x, 0] } of a non-negative number x given in tenths: the nearest
\* integer, a tie going to the even one.
Round(x) ==
  LET q == x \div 10
      r == x % 10
  IN IF r < 5 THEN q
     ELSE IF r > 5 THEN q + 1
     ELSE IF q % 2 = 0 THEN q ELSE q + 1

\* The Salon collection.  name is the rank of the name in collation order,
\* fromP the distance of the salon's location from the query point.
SalonCollection ==
  <<[id |-> 1, isActive |-> TRUE, mode |-> "toSalon", audience |-> {"men"},
     averageRating |-> 4, priceLevel |-> 2, popularityScore |-> 10,
     name |-> 3, fromP |-> Metres(50)],
    [id |-> 2, isActive |-> TRUE, mode |-> "toHome", audience |-> {"women"},
     averageRating |-> 5, priceLevel |-> 3, popularityScore |-> 30,
     name |-> 1, fromP |-> Metres(RadiusMin) + 5],
    [id |-> 3, isActive |-> TRUE, mode |-> "both", audience |-> {"unisex"},
     averageRating |-> 3, priceLevel |-> 1, popularityScore |-> 20,
     name |-> 2, fromP |-> Metres(RadiusDefault - 1)],
    [id |-> 4, isActive |-> TRUE, mode |-> "toSalon", audience |-> {"men"},
     averageRating |-> 2, priceLevel |-> 4, popularityScore |-> 40,
     name |-> 5, fromP |-> Metres(RadiusDefault) + 4],
    [id |-> 5, isActive |-> FALSE, mode |-> "toSalon", audience |-> {"men"},
     averageRating |-> 5, priceLevel |-> 2, popularityScore |-> 50,
     name |-> 4, fromP |-> Metres(10)],
    [id |-> 6, isActive |-> TRUE, mode |-> "toSalon", audience |-> {"kids"},
     averageRating |-> 1, priceLevel |-> 2, popularityScore |-> 5,
     name |-> 6, fromP |-> Metres(RadiusMax + 1)]>>

\* The Service collection.
ServiceCollection ==
  <<[id |-> 1, isActive |-> TRUE, mode |-> "toSalon", audience |-> {"men"},
     price |-> 2, name |-> 3, createdAt |-> 1, bookingCount |-> 7,
     isPopular |-> FALSE],
    [id |-> 2, isActive |-> TRUE, mode |-> "toHome", audience |-> {"women"},
     price |-> 0, name |-> 1, createdAt |-> 2, bookingCount |-> 9,
     isPopular |-> TRUE],
    [id |-> 3, isActive |-> TRUE, mode |-> "both", audience |-> {"unisex"},
     price |-> 1, name |-> 4, createdAt |-> 3, bookingCount |-> 7,
     isPopular |-> TRUE],
    [id |-> 4, isActive |-> FALSE, mode |-> "toHome", audience |-> {"women"},
     price |-> 1, name |-> 2, createdAt |-> 4, bookingCount |-> 0,
     isPopular |-> FALSE],
    [id |-> 5, isActive |-> TRUE, mode |-> "toHome", audience |-> {"kids"},
     price |-> 1, name |-> 5, createdAt |-> 5, bookingCount |-> 3,
     isPopular |-> FALSE]>>

\* The Short collection: every third short is inactive.
ShortCollection ==
  [i \in 1..MaxShorts |->
     [id |-> i, isActive |-> i % 3 # 0, createdAt |-> i,
      viewCount |-> i % 4, likeCount |-> i % 2]]

\* One key of a MongoDB sort specification: order 1 ascending, -1 descending.
SortKey(field, order) == [field |-> field, order |-> order]

\* The value a document is sorted by: a missing field sorts as null, below
\* every number, and false below true.
FieldValue(doc, field) ==
  IF field \notin DOMAIN doc THEN -1
  ELSE IF field = "isPopular" THEN (IF doc[field] THEN 1 ELSE 0)
  ELSE doc[field]

\* a comes before b under the sort specification; documents that tie on every
\* key keep the order of their _id (the sort is taken to be stable).
RECURSIVE Before(_, _, _)
Before(a, b, sort) ==
  IF sort = <<>> THEN a.id <= b.id
  ELSE LET x == FieldValue(a, Head(sort).field)
           y == FieldValue(b, Head(sort).field)
       IN IF x = y THEN Before(a, b, Tail(sort))
          ELSE IF Head(sort).order = 1 THEN x < y ELSE x > y

\* cursor.sort(sort) / { $sort: sort }
SortDocs(docs, sort) == SortSeq(docs, LAMBDA a, b : Before(a, b, sort))

\* cursor.skip(skip).limit(limit) / [{ $skip }, { $limit }]
SkipLimit(docs, skip, limit) ==
  SubSeq(docs, skip + 1,
         IF skip + limit < Len(docs) THEN skip + limit ELSE Len(docs))

\* The _ids of a sequence of documents.
Ids(docs) == [i \in DOMAIN docs |-> docs[i].id]

\* buildSortObject(sortBy, sortOrder): `mapping[sortBy] || sortBy`
buildSortObject(sortBy, sortOrder) ==
  LET field ==
        CASE sortBy = "rating" -> "averageRating"
          [] sortBy = "price" -> "priceLevel"
          [] sortBy = "popular" -> "popularityScore"
          [] sortBy = "name" -> "name"
          [] sortBy = "distance" -> "distance"
          [] sortBy = "newest" -> "createdAt"
          [] OTHER -> sortBy
  IN <<SortKey(field, IF sortOrder = "asc" THEN 1 ELSE -1)>>

\* A numeric parameter with its default: `x = d` in a destructuring,
\* .default(d) in a schema.
DefaultNumber(x, d) == IF x = Undefined THEN d ELSE x.v

\* A string parameter with its default.
DefaultString(x, d) == IF x = Absent THEN d ELSE x

\* buildGeoNearStage: the documents that match the filter within maxDistance
\* (radius, in metres) of the point, nearest first.
buildGeoNearStage(radius, matchFilter) ==
  SortDocs(SelectSeq(SalonCollection,
                     LAMBDA d : /\ d.fromP <= Metres(radius)
                                /\ MatchSalon(d, matchFilter)),
           <<SortKey("fromP", 1)>>)

\* The $project stage: distanceInMeters: { $round: ['$distanceInMeters', 0] }
Project(docs) ==
  [i \in DOMAIN docs |->
     [id |-> docs[i].id, name |-> docs[i].name,
      averageRating |-> docs[i].averageRating,
      priceLevel |-> docs[i].priceLevel,
      popularityScore |-> docs[i].popularityScore,
      distanceInMeters |-> Round(docs[i].fromP)]]

\* Mutant of Facet: the count is taken after $skip and $limit.
Facet_CountPage(docs, page, limit) ==
  [data |-> SkipLimit(docs, calculateSkip(page, limit), limit),
   totalCount |-> Len(SkipLimit(docs, calculateSkip(page, limit), limit))]

\* The $facet stage with `result?.totalCount?.[0]?.count || 0`: the page and
\* the count of the same documents.
Facet(docs, page, limit) ==
  [data |-> SkipLimit(docs, calculateSkip(page, limit), limit),
   totalCount |-> Len(docs)]

\* Salon.aggregate(buildSalonGeoSearchPipeline(params)): [stream, data, total]
buildSalonGeoSearchPipeline(params) ==
  LET radius == DefaultNumber(params.radius, RadiusDefault)
      page == DefaultNumber(params.page, 1)
      limit == DefaultNumber(params.limit, SalonLimitDefault)
      sortBy == DefaultString(params.sortBy, "distance")
      sortOrder == DefaultString(params.sortOrder, "asc")
      filter == buildSalonFilter(params.filterParams)
      near == Project(buildGeoNearStage(radius, filter))
      sort == IF sortBy = "distance"
                THEN <<SortKey("distanceInMeters",
                               IF sortOrder = "asc" THEN 1 ELSE -1)>>
                ELSE buildSortObject(sortBy, sortOrder)
      sorted == SortDocs(near, sort)
      facet == Facet(sorted, page, limit)
  IN [sort |-> sort, maxDistance |-> radius, stream |-> sorted,
      data |-> facet.data, total |-> facet.totalCount]

\* Values of a query's numeric and enum fields that pass the schema (Undefined
\* and Absent: the field is not sent), and sort keys that do not.
RadiusInputs ==
  {Undefined, Num(Metres(RadiusMin) + 7), Num(Metres(RadiusMax))}

PageInputs == {Undefined, Num(1), Num(2), Num(3)}

LimitInputs == {Undefined, Num(1), Num(2)}

SortOrderInputs == {Absent, "asc", "desc"}

SalonSortKeys == {"distance", "rating", "price", "popular", "name"}

ServiceSortKeys == {"price", "popular", "name", "newest"}

\* req.query of GET /api/salons; geo: lat and lng are both sent.
SalonListQueries ==
  [geo : BOOLEAN, radius : RadiusInputs, mode : {Absent, "toSalon", "toHome"},
   minRating : {Undefined, Num(3)}, page : PageInputs, limit : LimitInputs,
   sortBy : SalonSortKeys \cup {Absent, "newest", "bogus"},
   sortOrder : SortOrderInputs]

\* req.query of GET /api/services
ServiceListQueries ==
  [mode : {Absent, "toHome"}, page : PageInputs, limit : LimitInputs,
   sortBy : ServiceSortKeys \cup {Absent, "rating", "bogus"},
   sortOrder : SortOrderInputs]

\* req.query of GET /api/shorts
ShortListQueries ==
  [popular : {Absent, "true"}, page : PageInputs,
   limit : LimitInputs \cup {Num(ShortLimitCap + 10)}]

\* What a list route leaves behind: the request, whether it was answered, and
\* of the answer the sort that was applied, the page and the pagination; as
\* history, stream is the whole sorted result the page was cut from.
ListResponse(route, q, answered, sort, maxDistance, stream, items, pagination) ==
  [route |-> route, query |-> q, answered |-> answered, sort |-> sort,
   maxDistance |-> maxDistance, stream |-> stream, items |-> items,
   pagination |-> pagination]

\* validate throws: the request is left without a response.
Unanswered(route, q) ==
  ListResponse(route, q, FALSE, <<>>, 0, <<>>, <<>>,
               buildPaginationResponse(1, 1, 0))

\* The filter parameters getSalons hands to buildSalonFilter.
SalonFilterParams(q) ==
  [mode |-> q.mode, audience |-> Absent,
   minRating |-> TruthyNumber(q.minRating), maxRating |-> Undefined,
   minPriceLevel |-> Undefined, maxPriceLevel |-> Undefined]

\* GET /api/salons with lat and lng: the aggregation branch of getSalons
getSalonsGeo(q, page, limit, sortBy, sortOrder) ==
  LET radius == IF q.radius = Undefined THEN Metres(RadiusDefault)
                ELSE q.radius.v
      result == buildSalonGeoSearchPipeline(
        [radius |-> Num(parseInt(radius)), page |-> Num(page),
         limit |-> Num(limit),
         sortBy |-> sortBy, sortOrder |-> sortOrder,
         filterParams |-> SalonFilterParams(q)])
  IN ListResponse("salons", q, TRUE, result.sort, result.maxDistance,
       [i \in DOMAIN result.stream |->
          [id |-> result.stream[i].id,
           distanceInMeters |-> result.stream[i].distanceInMeters]],
       [i \in DOMAIN result.data |->
          [id |-> result.data[i].id,
           distanceInMeters |-> result.data[i].distanceInMeters]],
       buildPaginationResponse(page, limit, result.total))

\* GET /api/salons without lat and lng: the find branch of getSalons
getSalonsFind(q, page, limit, sortBy, sortOrder) ==
  LET filter == buildSalonFilter(SalonFilterParams(q))
      order == IF sortOrder = "asc" THEN 1 ELSE -1
      sortObject ==
        CASE sortBy = "popular" -> <<SortKey("popularityScore", order)>>
          [] sortBy = "rating" -> <<SortKey("averageRating", order)>>
          [] sortBy = "price" -> <<SortKey("priceLevel", order)>>
          [] sortBy = "name" -> <<SortKey("name", order)>>
          [] OTHER -> buildSortObject(sortBy, sortOrder)
      found == SortDocs(SelectSeq(SalonCollection,
                                  LAMBDA d : MatchSalon(d, filter)),
                        sortObject)
  IN ListResponse("salons", q, TRUE, sortObject, 0,
       [i \in DOMAIN found |-> [id |-> found[i].id]],
       [i \in DOMAIN SkipLimit(found, calculateSkip(page, limit), limit) |->
          [id |-> SkipLimit(found, calculateSkip(page, limit), limit)[i].id]],
       buildPaginationResponse(page, limit, Len(found)))

\* GET /api/salons: validate(salonSearchSchema), then getSalons
getSalonsPage ==
  /\ list.route = "none"
  /\ \E q \in SalonListQueries :
    IF q.sortBy \notin SalonSortKeys \cup {Absent}
      THEN list' = Unanswered("salons", q)
      ELSE LET page == DefaultNumber(q.page, 1)
               limit == DefaultNumber(q.limit, SalonLimitDefault)
               sortBy == DefaultString(q.sortBy, "popular")
               sortOrder == DefaultString(q.sortOrder, "desc")
           IN list' = IF q.geo
                        THEN getSalonsGeo(q, page, limit, sortBy, sortOrder)
                        ELSE getSalonsFind(q, page, limit, sortBy, sortOrder)

\* GET /api/services: validate(serviceSearchSchema), then getServices
getServicesPage ==
  /\ list.route = "none"
  /\ \E q \in ServiceListQueries :
    IF q.sortBy \notin ServiceSortKeys \cup {Absent}
      THEN list' = Unanswered("services", q)
      ELSE LET page == DefaultNumber(q.page, 1)
               limit == DefaultNumber(q.limit, ServiceLimitDefault)
               sortBy == DefaultString(q.sortBy, "price")
               sortOrder == DefaultString(q.sortOrder, "asc")
               filter == buildServiceFilter(
                 [mode |-> q.mode, audience |-> Absent,
                  minPrice |-> Undefined, maxPrice |-> Undefined])
               sortObject ==
                 CASE sortBy = "price" ->
                        <<SortKey("price", IF sortOrder = "asc" THEN 1 ELSE -1)>>
                   [] sortBy = "popular" ->
                        <<SortKey("bookingCount", -1), SortKey("isPopular", -1)>>
                   [] sortBy = "name" ->
                        <<SortKey("name", IF sortOrder = "asc" THEN 1 ELSE -1)>>
                   [] sortBy = "newest" -> <<SortKey("createdAt", -1)>>
                   [] OTHER -> <<SortKey("price", 1)>>
               found == SortDocs(SelectSeq(ServiceCollection,
                                           LAMBDA d : MatchService(d, filter)),
                                 sortObject)
               slice == SkipLimit(found, calculateSkip(page, limit), limit)
           IN list' = ListResponse("services", q, TRUE, sortObject, 0,
                        [i \in DOMAIN found |-> [id |-> found[i].id]],
                        [i \in DOMAIN slice |-> [id |-> slice[i].id]],
                        buildPaginationResponse(page, limit, Len(found)))

\* GET /api/shorts: getShorts (the route has no validate)
getShorts ==
  /\ list.route = "none"
  /\ \E q \in ShortListQueries :
    LET page == DefaultNumber(q.page, 1)
        limit == DefaultNumber(q.limit, ShortLimitDefault)
        skip == (page - 1) * limit
        limitNum == IF limit < ShortLimitCap THEN limit ELSE ShortLimitCap
        sortOptions ==
          IF q.popular = "true"
            THEN <<SortKey("viewCount", -1), SortKey("likeCount", -1),
                   SortKey("createdAt", -1)>>
            ELSE <<SortKey("createdAt", -1)>>
        found == SortDocs(SelectSeq(ShortCollection, LAMBDA d : d.isActive),
                          sortOptions)
        slice == SkipLimit(found, skip, limitNum)
    IN list' = ListResponse("shorts", q, TRUE, sortOptions, 0,
                 [i \in DOMAIN found |-> [id |-> found[i].id]],
                 [i \in DOMAIN slice |-> [id |-> slice[i].id]],
                 buildPaginationResponse(page, limitNum, Len(found)))

InitList ==
  list = [route |-> "none", query |-> <<>>, answered |-> FALSE, sort |-> <<>>,
          maxDistance |-> 0, stream |-> <<>>, items |-> <<>>,
          pagination |-> buildPaginationResponse(1, 1, 0)]

notListVars ==
  <<bookingVars, favVars, addrVars, filterVars, searchVars, pagVars,
  fmtVars,
  shortVars,
  authVars,
  textVars,
  raceVars,
  slotVars,
  refreshVars,
  otpVars,
  resetVars,
  accountVars>>

NextList ==
  \/ getSalonsPage /\ UNCHANGED notListVars
  \/ getServicesPage /\ UNCHANGED notListVars
  \/ getShorts /\ UNCHANGED notListVars

----------------------------------------------------------------------------
(* Claims about the paginated lists *)

\* The salons the non-geo search returns for the filters of the query.
NonGeoResult(q) ==
  LET found == getSalonsFind(q, 1, 1, "popular", "desc").stream
  IN {found[i].id : i \in DOMAIN found}

\* The salons among them whose distance from the point is at most r tenths of
\* a metre.
WithinRadius(q, r) ==
  {id \in NonGeoResult(q) : SalonCollection[id].fromP <= r}

\* The _ids of a page or a stream of the response.
ItemIds(items) == {items[i].id : i \in DOMAIN items}

\* The part of the stream that page `page` of size `limit` holds.
PageSlice(stream, page, limit) ==
  [i \in 1..(IF page * limit < Len(stream)
               THEN limit
               ELSE IF Len(stream) > (page - 1) * limit
                 THEN Len(stream) - (page - 1) * limit ELSE 0) |->
     stream[(page - 1) * limit + i]]

\* The response answers a geo search on GET /salons.
GeoAnswered ==
  list.route = "salons" /\ list.answered /\ list.query.geo

\* C11: for a geo search on GET /salons with radius R, the salons returned
\* over all pages are exactly those the non-geo search returns for the same
\* filters whose distance from the point is <= R; no returned record has
\* distanceInMeters > R; R is 5000 when the query has no radius and never
\* above 20000.
C11_GeoIsRadiusRestriction ==
  GeoAnswered =>
     LET R == DefaultNumber(list.query.radius, Metres(RadiusDefault))
     IN /\ ItemIds(list.stream) = WithinRadius(list.query, R)
        /\ \A i \in DOMAIN list.items :
             Metres(list.items[i].distanceInMeters) <= R
        /\ list.query.radius = Undefined => list.maxDistance = RadiusDefault
        /\ list.maxDistance <= RadiusMax

\* C12: for a geo search on GET /salons, pagination.total is the number of
\* salons that satisfy the geo and attribute predicate (within maxDistance,
\* matched by the filter), the same for every page and limit and 0 when nothing
\* matches, and the returned page is the slice of that filtered, sorted set
\* that skip and limit select.
C12_GeoTotalCountsFilteredSet ==
  GeoAnswered =>
     LET matching == WithinRadius(list.query, Metres(list.maxDistance))
         q == list.query
     IN /\ list.pagination.total = Cardinality(matching)
        /\ ItemIds(list.stream) = matching
        /\ Len(list.stream) = Cardinality(matching)
        /\ list.items = PageSlice(list.stream, list.pagination.page,
                                  list.pagination.limit)
        /\ \A i, j \in DOMAIN list.stream :
             i < j => Before(SalonCollection[list.stream[i].id] @@ list.stream[i],
                             SalonCollection[list.stream[j].id] @@ list.stream[j],
                             list.sort)
        /\ \A p \in PageInputs, l \in LimitInputs :
             getSalonsGeo(q, DefaultNumber(p, 1),
                          DefaultNumber(l, SalonLimitDefault),
                          DefaultString(q.sortBy, "popular"),
                          DefaultString(q.sortOrder, "desc")).pagination.total
               = list.pagination.total

\* C12 witness: the second page of a geo search that three salons match, one
\* salon on a page: the page is not the whole set and the total is 3.
C12_Witness ==
  /\ GeoAnswered
  /\ list.pagination.page = 2
  /\ list.pagination.limit = 1
  /\ list.pagination.total = 3
  /\ Len(list.items) = 1
  /\ list.items[1] = list.stream[2]

\* C12 witness: a geo search that no salon matches, answered with total 0.
C12_WitnessEmpty ==
  /\ GeoAnswered
  /\ list.pagination.total = 0
  /\ list.items = <<>>

\* C14: on GET /salons, /services and /shorts, page p holds exactly the items
\* at positions (p-1)*L .. p*L-1 of the full filtered, sorted result, where L
\* is the page size reported in pagination.limit.
C14_PageIsSliceOfResult ==
  list.answered =>
     list.items = PageSlice(list.stream, list.pagination.page,
                            list.pagination.limit)

\* C15: a geo search on GET /salons that sends neither sortBy nor sortOrder
\* returns the salons nearest first.
C15_GeoDefaultsToDistance ==
  (GeoAnswered /\ list.query.sortBy = Absent /\ list.query.sortOrder = Absent) =>
     \A i, j \in DOMAIN list.items :
        i < j => list.items[i].distanceInMeters <= list.items[j].distanceInMeters

\* C16: when the sort key of an answered request is not a known key, or is
\* distance on a salon search without coordinates, the ordering is the fixed
\* default: popularityScore descending for salons, price ascending for
\* services.
C16_UnknownSortKeyFallsBack ==
  /\ (/\ list.route = "salons" /\ list.answered
      /\ \/ list.query.sortBy \notin SalonSortKeys \cup {Absent, "newest"}
         \/ list.query.sortBy = "distance" /\ ~list.query.geo)
       => list.sort = <<SortKey("popularityScore", -1)>>
  /\ (/\ list.route = "services" /\ list.answered
      /\ list.query.sortBy \notin ServiceSortKeys \cup {Absent, "rating"})
       => list.sort = <<SortKey("price", 1)>>

\* The stored field the spec maps a known sort key to.
MappedField(route, sortBy) ==
  CASE sortBy = "popular" -> "popularityScore"
    [] sortBy = "rating" -> "averageRating"
    [] sortBy = "price" -> IF route = "salons" THEN "priceLevel" ELSE "price"
    [] sortBy = "name" -> "name"
    [] sortBy = "newest" -> "createdAt"

\* C17: for every known sort key and each direction, the ordering GET /salons
\* and GET /services apply is the mapped stored field in the requested
\* direction.
C17_KnownSortKeysMapToFields ==
  (/\ list.route \in {"salons", "services"} /\ list.answered
   /\ list.query.sortBy \in {"popular", "rating", "price", "name", "newest"}
   /\ list.query.sortOrder # Absent)
    => list.sort = <<SortKey(MappedField(list.route, list.query.sortBy),
                             IF list.query.sortOrder = "asc" THEN 1 ELSE -1)>>

----------------------------------------------------------------------------
(* Count formatting (models/Short.js, short controller) *)

\* (num / unit).toFixed(1) as the number of tenths it prints: the tenth
\* nearest to num / unit.  When num / unit lies midway between two tenths,
\* toFixed rounds the binary value of the quotient: up when the quotient is
\* exact in binary (it ends in .25 or .75), else up or down as the nearest
\* binary value lies above or below the midpoint, which roundsUp tells.
toFixed1(num, unit, roundsUp) ==
  LET tenths == (num * 10) \div unit
      rest == (num * 10) % unit
  IN IF 2 * rest > unit THEN tenths + 1
     ELSE IF 2 * rest < unit THEN tenths
     ELSE IF (num * 4) % unit = 0 \/ roundsUp THEN tenths + 1
     ELSE tenths

\* The text of toFixed(1) with .replace(/\.0$/, '') applied
StripZero(tenths) ==
  IF tenths % 10 = 0 THEN ToString(tenths \div 10)
  ELSE ToString(tenths \div 10) \o "." \o ToString(tenths % 10)

\* formatCount(num)
formatCount(num, roundsUp) ==
  IF num = 0 THEN "0"
  ELSE IF num >= 1000000
    THEN StripZero(toFixed1(num, 1000000, roundsUp)) \o "M"
  ELSE IF num >= 1000
    THEN StripZero(toFixed1(num, 1000, roundsUp)) \o "K"
  ELSE ToString(num)

\* Non-negative counts: small ones, the ones around a thousand and below a
\* million, and millions.
CountInputs ==
  {50 * k : k \in 0..MaxCountSteps}
    \cup {999 + k : k \in 0..MaxCountSteps}
    \cup {999999 - 7 * k : k \in 0..MaxCountSteps}
    \cup {1000000 + 50000 * k : k \in 0..MaxCountSteps}

\* One call of formatCount
CallFormatCount ==
  \E num \in CountInputs, roundsUp \in BOOLEAN :
     fmt' = [num |-> num, out |-> formatCount(num, roundsUp)]

InitFormat == fmt = [num |-> 0, out |-> "0"]

notFmtVars ==
  <<bookingVars, favVars, addrVars, filterVars, searchVars, pagVars, listVars,
  shortVars,
  authVars,
  textVars,
  raceVars,
  slotVars,
  refreshVars,
  otpVars,
  resetVars,
  accountVars>>

NextFormat ==
  \/ CallFormatCount /\ UNCHANGED notFmtVars

----------------------------------------------------------------------------
(* Claims about count formatting *)

\* The numbers of tenths that are nearest to n / unit (two when n / unit lies
\* midway between two tenths).
NearestTenths(n, unit) ==
  {t \in ((n * 10) \div unit)..((n * 10) \div unit + 1) :
     /\ 2 * (n * 10 - t * unit) <= unit
     /\ 2 * (t * unit - n * 10) <= unit}

\* A number of tenths written with one decimal, a trailing ".0" left out.
OneDecimal(t) ==
  IF t % 10 = 0 THEN ToString(t \div 10)
  ELSE ToString(t \div 10) \o "." \o ToString(t % 10)

\* C18: for every non-negative integer n, formatCount(n) is the digits of n
\* when n < 1000; n/1000 rounded to one decimal without a trailing ".0",
\* followed by K, when 1000 <= n < 1,000,000, and its numeric part is below
\* 1000; n/1,000,000 rounded likewise, followed by M, when n >= 1,000,000.
C18_FormatCount ==
  LET n == fmt.num
  IN /\ n < 1000 => fmt.out = ToString(n)
     /\ (1000 <= n /\ n < 1000000) =>
          \E t \in NearestTenths(n, 1000) :
             t < 10000 /\ fmt.out = OneDecimal(t) \o "K"
     /\ n >= 1000000 =>
          \E t \in NearestTenths(n, 1000000) : fmt.out = OneDecimal(t) \o "M"

\* The examples of C18: 950, 1500, 1,000,000 and 2,300,000.
C18_Examples ==
  /\ fmt.num = 950 => fmt.out = "950"
  /\ fmt.num = 1500 => fmt.out = "1.5K"
  /\ fmt.num = 1000000 => fmt.out = "1M"
  /\ fmt.num = 2300000 => fmt.out = "2.3M"

----------------------------------------------------------------------------
(* Engagement counters of a Short (short controller, models/Short.js).     *)
(* The handlers are split at their awaits: each request works on the copy  *)
(* of the document that its findById loaded, and save() writes the paths   *)
(* the request modified ($set).                                            *)

ShortSlots == 1..MaxShortRequests

\* The counters of a new document (defaults), current and legacy names.
NewShort ==
  [viewCount |-> 0, likeCount |-> 0, commentCount |-> 0, shareCount |-> 0,
   viewsCount |-> 0, likesCount |-> 0, commentsCount |-> 0, sharesCount |-> 0]

\* The legacy name of each counter.
LegacyName ==
  [viewCount |-> "viewsCount", likeCount |-> "likesCount",
   commentCount |-> "commentsCount", shareCount |-> "sharesCount"]

IdleRequest == [op |-> "idle", pc |-> "idle", user |-> None,
                doc |-> NewShort, existingLike |-> FALSE]

\* Requests that have been received.
ShortStarted ==
  shortDone.view + shortDone.share + shortDone.like + shortDone.unlike
    + shortDone.comment + shortDone.failed
    + Cardinality({i \in ShortSlots : shortReqs[i].op # "idle"})

\* const short = await Short.findById(req.params.id)
ShortFindById(i, op, user) ==
  /\ shortReqs[i].op = "idle"
  /\ ShortStarted < MaxShortOps
  /\ shortReqs' = [shortReqs EXCEPT ![i] =
       [op |-> op, pc |-> "found", user |-> user, doc |-> short,
        existingLike |-> FALSE]]
  /\ UNCHANGED <<short, shortLikes, shortDone>>

\* Mutant of Save: the legacy counter is not written.
Save_CountOnly(doc, path, by) == [short EXCEPT ![path] = doc[path] + by]

\* this.<path> += by and the same on the legacy counter (a decrement of it
\* stops at 0); the pre-save hook sets the legacy counter to the modified
\* counter; await this.save() sets the stored paths to the values computed
\* from the loaded copy.
Save(doc, path, by) ==
  LET legacy == LegacyName[path]
      modified == [doc EXCEPT ![path] = @ + by,
                              ![legacy] = IF by < 0
                                            THEN (IF @ - 1 > 0 THEN @ - 1 ELSE 0)
                                            ELSE @ + by]
      hooked == [modified EXCEPT ![legacy] = modified[path]]
  IN [short EXCEPT ![path] = hooked[path], ![legacy] = hooked[legacy]]

\* The request of slot i has answered.
ShortRespond(i, outcome) ==
  /\ shortReqs' = [shortReqs EXCEPT ![i] = IdleRequest]
  /\ shortDone' = [shortDone EXCEPT ![outcome] = @ + 1]

\* recordView: findById
recordViewFind(i) == ShortFindById(i, "view", None)

\* recordView: await short.incrementViews(); res.json(...)
recordViewSave(i) ==
  /\ shortReqs[i].op = "view" /\ shortReqs[i].pc = "found"
  /\ short' = Save(shortReqs[i].doc, "viewCount", 1)
  /\ ShortRespond(i, "view")
  /\ UNCHANGED shortLikes

\* recordShare: findById
recordShareFind(i) == ShortFindById(i, "share", None)

\* recordShare: await short.incrementShares(); res.json(...)
recordShareSave(i) ==
  /\ shortReqs[i].op = "share" /\ shortReqs[i].pc = "found"
  /\ short' = Save(shortReqs[i].doc, "shareCount", 1)
  /\ ShortRespond(i, "share")
  /\ UNCHANGED shortLikes

\* addComment: findById (a text is given)
addCommentFind(i, user) == ShortFindById(i, "comment", user)

\* addComment: await ShortComment.create(...); await
\* short.incrementComments(); res.status(201).json(...)
addCommentSave(i) ==
  /\ shortReqs[i].op = "comment" /\ shortReqs[i].pc = "found"
  /\ short' = Save(shortReqs[i].doc, "commentCount", 1)
  /\ ShortRespond(i, "comment")
  /\ UNCHANGED shortLikes

\* toggleLike: findById
toggleLikeFind(i, user) == ShortFindById(i, "like", user)

\* toggleLike: const existingLike = await ShortLike.findOne({ short, user })
toggleLikeFindOne(i) ==
  /\ shortReqs[i].op = "like" /\ shortReqs[i].pc = "found"
  /\ shortReqs' = [shortReqs EXCEPT ![i].pc = "looked",
                     ![i].existingLike = shortReqs[i].user \in shortLikes]
  /\ UNCHANGED <<short, shortLikes, shortDone>>

\* toggleLike: await existingLike.deleteOne(), or await ShortLike.create(...)
\* which the unique index { short, user } rejects when the like is stored
\* (error 11000, answered 400).
toggleLikeWrite(i) ==
  /\ shortReqs[i].op = "like" /\ shortReqs[i].pc = "looked"
  /\ IF shortReqs[i].existingLike
       THEN /\ shortLikes' = shortLikes \ {shortReqs[i].user}
            /\ shortReqs' = [shortReqs EXCEPT ![i].pc = "written"]
            /\ UNCHANGED <<short, shortDone>>
     ELSE IF shortReqs[i].user \in shortLikes
       THEN /\ ShortRespond(i, "failed")
            /\ UNCHANGED <<short, shortLikes>>
     ELSE /\ shortLikes' = shortLikes \cup {shortReqs[i].user}
          /\ shortReqs' = [shortReqs EXCEPT ![i].pc = "written"]
          /\ UNCHANGED <<short, shortDone>>

\* toggleLike: await short.decrementLikes() or await short.incrementLikes();
\* res.json(...)
toggleLikeSave(i) ==
  /\ shortReqs[i].op = "like" /\ shortReqs[i].pc = "written"
  /\ IF shortReqs[i].existingLike
       THEN /\ short' = IF shortReqs[i].doc.likeCount > 0
                          THEN Save(shortReqs[i].doc, "likeCount", -1)
                          ELSE short
            /\ ShortRespond(i, "unlike")
       ELSE /\ short' = Save(shortReqs[i].doc, "likeCount", 1)
            /\ ShortRespond(i, "like")
  /\ UNCHANGED shortLikes

InitShort ==
  /\ short = NewShort
  /\ shortLikes = {}
  /\ shortReqs = [i \in ShortSlots |-> IdleRequest]
  /\ shortDone = [view |-> 0, share |-> 0, like |-> 0, unlike |-> 0,
                  comment |-> 0, failed |-> 0]

notShortVars ==
  <<bookingVars, favVars, addrVars, filterVars, searchVars, pagVars, listVars,
    fmtVars,
  authVars,
  textVars,
  raceVars,
  slotVars,
  refreshVars,
  otpVars,
  resetVars,
  accountVars>>

NextShort ==
  \/ \E i \in ShortSlots : recordViewFind(i) /\ UNCHANGED notShortVars
  \/ \E i \in ShortSlots : recordViewSave(i) /\ UNCHANGED notShortVars
  \/ \E i \in ShortSlots : recordShareFind(i) /\ UNCHANGED notShortVars
  \/ \E i \in ShortSlots : recordShareSave(i) /\ UNCHANGED notShortVars
  \/ \E i \in ShortSlots, u \in Users :
        toggleLikeFind(i, u) /\ UNCHANGED notShortVars
  \/ \E i \in ShortSlots : toggleLikeFindOne(i) /\ UNCHANGED notShortVars
  \/ \E i \in ShortSlots : toggleLikeWrite(i) /\ UNCHANGED notShortVars
  \/ \E i \in ShortSlots : toggleLikeSave(i) /\ UNCHANGED notShortVars
  \/ \E i \in ShortSlots, u \in Users :
        addCommentFind(i, u) /\ UNCHANGED notShortVars
  \/ \E i \in ShortSlots : addCommentSave(i) /\ UNCHANGED notShortVars

----------------------------------------------------------------------------
(* Claims about the engagement counters *)

\* C19: when the recordView, recordShare and toggleLike requests on a short
\* (the likes by distinct users who had not liked it) have all succeeded,
\* however they were interleaved, viewCount, shareCount and likeCount have
\* grown by the number of their requests, and likeCount is the number of
\* ShortLike records of the short.
C19_CountersCountRequests ==
  (/\ \A i \in ShortSlots : shortReqs[i].op = "idle"
   /\ shortDone.failed = 0 /\ shortDone.unlike = 0) =>
     /\ short.viewCount = shortDone.view
     /\ short.shareCount = shortDone.share
     /\ short.likeCount = shortDone.like
     /\ short.likeCount = Cardinality(shortLikes)

\* C30: after any recordView, toggleLike, addComment and recordShare
\* requests on a short, each counter equals its legacy counter and none is
\* negative; an unlike whose document has likeCount 0 leaves all counters
\* unchanged.
C30_LegacyCountersInSync ==
  /\ [](\A path \in DOMAIN LegacyName :
          short[path] = short[LegacyName[path]] /\ short[path] >= 0)
  /\ [][\A i \in ShortSlots :
          (/\ shortReqs[i].op = "like" /\ shortReqs[i].pc = "written"
           /\ shortReqs[i].existingLike
           /\ shortReqs[i].doc.likeCount = 0
           /\ shortReqs'[i].op = "idle")
          => short' = short]_vars

C30_Witness ==
  /\ shortDone.unlike = 1
  /\ shortDone.like = 0
  /\ shortDone.comment = 1
  /\ short.commentCount = 1
  /\ short.commentsCount = 1

----------------------------------------------------------------------------
(* The booking routes behind authenticate (routes/booking.routes.js,       *)
(* middleware/auth.js): the handlers above, with the user the token names. *)

\* User documents: two customers, the owner of salon s1 and an admin.
Accounts ==
  {[id |-> "u1", role |-> "customer"], [id |-> "u2", role |-> "customer"],
   [id |-> "o1", role |-> "provider"], [id |-> "a1", role |-> "admin"]}

\* A request without a (valid) token.
NoAccount == [id |-> None, role |-> None]

\* salon.owner
SalonOwner == [s1 |-> "o1", s2 |-> "o2"]

\* router.use(authenticate): without a token the request is answered 401 and
\* no handler runs; with one, req.user is the account and the handler runs.
\* No booking route has a further middleware (authorize is mounted nowhere).
authenticate(account, op, id, handler) ==
  /\ caller' = account
  /\ IF account = NoAccount
       THEN /\ resp' = [Response(op, 0, id, None) EXCEPT !.code = 401]
            /\ UNCHANGED <<bookings, notifications>>
       ELSE handler

Callers == Accounts \cup {NoAccount}

InitAuth == caller = NoAccount

notAuthVars ==
  <<favVars, addrVars, filterVars, searchVars, pagVars, listVars, fmtVars,
    shortVars,
  textVars,
  raceVars,
  slotVars,
  refreshVars,
  otpVars,
  resetVars,
  accountVars>>

\* Bookings are created by customers (or refused without a token); every
\* other route is called by every account.
NextBookingAuth ==
  \/ \E a \in Callers, s \in DOMAIN SalonDocs, l \in ServiceIdLists :
        /\ a.role \in {"customer", None}
        /\ authenticate(a, "createBooking", 0, createBooking(a.id, s, l))
        /\ UNCHANGED notAuthVars
  \/ \E a \in Callers, id \in BookingIds :
        /\ authenticate(a, "cancelBooking", id, cancelBooking(a.id, id))
        /\ UNCHANGED notAuthVars
  \/ \E a \in Callers, id \in BookingIds, t \in StatusInputs :
        /\ authenticate(a, "updateBookingStatus", id,
                        updateBookingStatus(a.id, id, t))
        /\ UNCHANGED notAuthVars
  \/ \E a \in Callers, id \in BookingIds :
        /\ authenticate(a, "confirmBooking", id, confirmBooking(id))
        /\ UNCHANGED notAuthVars
  \/ \E a \in Callers, id \in BookingIds :
        /\ authenticate(a, "completeBooking", id, completeBooking(id))
        /\ UNCHANGED notAuthVars
  \/ \E a \in Callers, id \in BookingIds :
        /\ authenticate(a, "markNoShow", id, markNoShow(id))
        /\ UNCHANGED notAuthVars

----------------------------------------------------------------------------
(* Claims about who may move a booking *)

\* C20: PATCH /bookings/:id/status, POST /confirm, /complete and /no-show
\* change a booking only when the caller is an admin or the owner of the
\* booking's salon; no other authenticated user changes the status of a
\* booking.
C20_SalonSideNeedsOwnerOrAdmin ==
  (/\ resp.op \in {"updateBookingStatus", "confirmBooking", "completeBooking",
                   "markNoShow"}
   /\ resp.code = 200) =>
     \/ caller.role = "admin"
     \/ caller.id = SalonOwner[bookings[resp.id].salon]

----------------------------------------------------------------------------
(* Text search on GET /api/salons (salon controller, buildTextSearchFilter). *)
(* Texts are sequences of characters.                                        *)

Chars == {"a", "b", "A", "."}

\* Characters that /[.*+?^${}()|[\]\\]/ matches, among Chars.
SpecialChars == {"."}

\* The `i` flag: the letters compare by their lower case.
LowerCase(c) == IF c = "A" THEN "a" ELSE c

\* Salon documents with their text fields.
TextSalons ==
  <<[id |-> 1, isActive |-> TRUE, name |-> <<"a", "b">>,
     description |-> <<>>, address |-> <<"b", ".", "a">>,
     tags |-> {<<"a", "a">>}],
    [id |-> 2, isActive |-> TRUE, name |-> <<"B", "B">>,
     description |-> <<"b", "a", "b">>, address |-> <<"b">>, tags |-> {}],
    [id |-> 3, isActive |-> TRUE, name |-> <<"b">>,
     description |-> <<"b">>, address |-> <<"b", "b">>,
     tags |-> {<<"b">>, <<"b", "b", "b">>}],
    [id |-> 4, isActive |-> FALSE, name |-> <<"a", ".", "a">>,
     description |-> <<"a">>, address |-> <<"a">>, tags |-> {<<"a">>}]>>

\* query.replace(/[.*+?^${}()|[\]\\]/g, '\\$&')
RECURSIVE EscapeRegExp(_)
EscapeRegExp(query) ==
  IF query = <<>> THEN <<>>
  ELSE (IF Head(query) \in SpecialChars THEN <<"\\", Head(query)>>
        ELSE <<Head(query)>>) \o EscapeRegExp(Tail(query))

\* new RegExp(source, 'i'): the tokens of the pattern; an escaped character
\* and a plain one stand for themselves, an unescaped dot for any character.
RECURSIVE RegExp(_)
RegExp(source) ==
  IF source = <<>> THEN <<>>
  ELSE IF Head(source) = "\\" /\ Len(source) >= 2
    THEN <<[any |-> FALSE, c |-> source[2]]>> \o RegExp(Tail(Tail(source)))
  ELSE IF Head(source) = "."
    THEN <<[any |-> TRUE, c |-> "."]>> \o RegExp(Tail(source))
  ELSE <<[any |-> FALSE, c |-> Head(source)]>> \o RegExp(Tail(source))

\* { field: regex } on a string
RegExpTest(regex, value) ==
  \E start \in 0..(Len(value) - Len(regex)) :
     \A k \in DOMAIN regex :
        regex[k].any \/ LowerCase(regex[k].c) = LowerCase(value[start + k])

\* buildTextSearchFilter(query) applied to a document: the $or over name,
\* description, address and tags (an array field matches by an element).
buildTextSearchFilter(query, doc) ==
  LET regex == RegExp(EscapeRegExp(query))
  IN \/ query = <<>>
     \/ RegExpTest(regex, doc.name)
     \/ RegExpTest(regex, doc.description)
     \/ RegExpTest(regex, doc.address)
     \/ \E t \in doc.tags : RegExpTest(regex, t)

\* req.query.q: texts of up to MaxQueryLen characters
TextQueries == UNION {[1..n -> Chars] : n \in 0..MaxQueryLen}

\* GET /api/salons?q=...: with lat and lng the aggregation branch runs, whose
\* parameters do not include q; without them the find branch adds the text
\* filter when q is not empty.  (All salons lie within the radius.)
getSalonsText ==
  \E q \in TextQueries, isGeoSearch \in BOOLEAN :
     txt' = [q |-> q, geo |-> isGeoSearch,
             salons |->
               IF isGeoSearch
                 THEN {d.id : d \in {x \in Range(TextSalons) : x.isActive}}
                 ELSE {d.id : d \in {x \in Range(TextSalons) :
                         x.isActive /\ buildTextSearchFilter(q, x)}}]

InitText == txt = [q |-> <<>>, geo |-> FALSE, salons |-> {}]

notTextVars ==
  <<bookingVars, favVars, addrVars, filterVars, searchVars, pagVars, listVars,
    fmtVars, shortVars, authVars,
  raceVars,
  slotVars,
  refreshVars,
  otpVars,
  resetVars,
  accountVars>>

NextText ==
  \/ getSalonsText /\ UNCHANGED notTextVars

----------------------------------------------------------------------------
(* Claims about the text search *)

\* text contains part as a literal substring, letter case ignored.
ContainsIgnoringCase(text, part) ==
  \E start \in 0..(Len(text) - Len(part)) :
     \A k \in DOMAIN part : LowerCase(text[start + k]) = LowerCase(part[k])

\* The document matches q in its name, description, address or tags.
MatchesText(doc, q) ==
  \/ ContainsIgnoringCase(doc.name, q)
  \/ ContainsIgnoringCase(doc.description, q)
  \/ ContainsIgnoringCase(doc.address, q)
  \/ \E t \in doc.tags : ContainsIgnoringCase(t, q)

\* C21: on GET /salons with a text query q, with or without lat and lng, every
\* returned salon contains q, letter case ignored, as a literal substring of
\* its name, description, address or a tag.
C21_TextFilterAlsoWithCoordinates ==
  txt.q # <<>> =>
     \A id \in txt.salons : MatchesText(TextSalons[id], txt.q)

\* The same without coordinates: the find branch alone.
C21_WithoutCoordinates ==
  (txt.q # <<>> /\ ~txt.geo) =>
     txt.salons = {d.id : d \in {x \in Range(TextSalons) :
                      x.isActive /\ MatchesText(x, txt.q)}}

----------------------------------------------------------------------------
(* Concurrent status changes of one booking (booking controller).  Each     *)
(* handler awaits the read of the booking, checks the status of the copy it *)
(* read, assigns the new status and awaits booking.save(), which writes the *)
(* assigned status; then it awaits Notification.create and responds.       *)

\* The booking the requests name: created by u1, status pending.
BookingCustomer == "u1"

StatusSlots == 1..MaxStatusRequests

IdleStatusRequest ==
  [pc |-> "idle", op |-> None, user |-> None, to |-> None, read |-> None,
   serial |-> 0]

\* The requests of the status-changing routes: the handler, the caller and
\* the status the request asks for.
StatusRequests ==
  {[op |-> "updateBookingStatus", user |-> "u2", to |-> t] : t \in StatusInputs}
  \cup {[op |-> "cancelBooking", user |-> u, to |-> "cancelled"] : u \in Users}
  \cup {[op |-> "confirmBooking", user |-> "u2", to |-> "confirmed"],
        [op |-> "completeBooking", user |-> "u2", to |-> "completed"],
        [op |-> "markNoShow", user |-> "u2", to |-> "no_show"]}

\* The status check of each handler on the copy it read.
StatusCheck(op, status, to) ==
  CASE op = "updateBookingStatus" -> to \in allowedTransitions[status]
    [] op = "cancelBooking"       -> status \notin {"completed", "cancelled"}
    [] op = "confirmBooking"      -> status = "pending"
    [] op = "completeBooking"     -> status \in {"confirmed", "in_progress"}
    [] op = "markNoShow"          -> status = "confirmed"

StatusRespond(r, code) ==
  statusDone' = statusDone \cup
     {[serial |-> r.serial, op |-> r.op, code |-> code, to |-> r.to,
       read |-> r.read]}

\* await Booking.findById(req.params.id) / Booking.findOne({_id, customer}):
\* the request reads the stored status.  updateBookingStatus answers 400 for
\* a status outside validStatuses before it reads; cancelBooking finds
\* nothing, and answers 404, unless the caller is the customer.
findBooking(i, q) ==
  /\ statusReqs[i].pc = "idle"
  /\ statusStarted < MaxStatusOps
  /\ statusStarted' = statusStarted + 1
  /\ LET r == [pc |-> "read", op |-> q.op, user |-> q.user, to |-> q.to,
               read |-> stored[Len(stored)].status,
               serial |-> statusStarted + 1]
     IN IF q.op = "updateBookingStatus" /\ q.to \notin validStatuses
          THEN /\ StatusRespond([r EXCEPT !.read = None], 400)
               /\ UNCHANGED statusReqs
        ELSE IF q.op = "cancelBooking" /\ q.user # BookingCustomer
          THEN /\ StatusRespond([r EXCEPT !.read = None], 404)
               /\ UNCHANGED statusReqs
        ELSE /\ statusReqs' = [statusReqs EXCEPT ![i] = r]
             /\ UNCHANGED statusDone
  /\ UNCHANGED <<stored, statusNotes>>

\* The status check on the copy read, then booking.status = ...;
\* await booking.save(): the assigned status is written.
saveBooking(i) ==
  LET r == statusReqs[i]
  IN /\ r.pc = "read"
     /\ IF StatusCheck(r.op, r.read, r.to)
          THEN /\ stored' = Append(stored, [status |-> r.to, by |-> r.serial])
               /\ statusReqs' = [statusReqs EXCEPT ![i].pc = "saved"]
               /\ UNCHANGED statusDone
          ELSE /\ StatusRespond(r, 400)
               /\ statusReqs' = [statusReqs EXCEPT ![i] = IdleStatusRequest]
               /\ UNCHANGED stored
     /\ UNCHANGED <<statusNotes, statusStarted>>

\* Mutant of StatusNotification: a started service is announced as confirmed.
StatusNotification_StartedAsConfirmed(r) ==
  IF r.op = "cancelBooking"
    THEN [user |-> r.user, notificationType |-> "booking_cancelled",
          serial |-> r.serial]
    ELSE [user |-> BookingCustomer,
          notificationType |->
            IF r.to = "in_progress" THEN "booking_confirmed"
            ELSE notificationMessages[r.to],
          serial |-> r.serial]

\* The document of Notification.create: cancelBooking addresses req.user,
\* the other handlers booking.customer; updateBookingStatus takes the type
\* from notificationMessages[newStatus].
StatusNotification(r) ==
  IF r.op = "cancelBooking"
    THEN [user |-> r.user, notificationType |-> "booking_cancelled",
          serial |-> r.serial]
    ELSE [user |-> BookingCustomer,
          notificationType |-> notificationMessages[r.to],
          serial |-> r.serial]

\* await Notification.create(...); res.json(...)
createNotification(i) ==
  LET r == statusReqs[i]
  IN /\ r.pc = "saved"
     /\ statusNotes' =
          IF r.op = "updateBookingStatus" /\ r.to \notin DOMAIN notificationMessages
            THEN statusNotes
            ELSE Append(statusNotes, StatusNotification(r))
     /\ StatusRespond(r, 200)
     /\ statusReqs' = [statusReqs EXCEPT ![i] = IdleStatusRequest]
     /\ UNCHANGED <<stored, statusStarted>>

InitRace ==
  /\ stored = <<[status |-> "pending", by |-> 0]>>
  /\ statusReqs = [i \in StatusSlots |-> IdleStatusRequest]
  /\ statusNotes = <<>>
  /\ statusDone = {}
  /\ statusStarted = 0

notRaceVars ==
  <<bookingVars, favVars, addrVars, filterVars, searchVars, pagVars, listVars,
    fmtVars, shortVars, authVars, textVars,
  slotVars,
  refreshVars,
  otpVars,
  resetVars,
  accountVars>>

NextBookingRace ==
  \/ \E i \in StatusSlots, q \in StatusRequests :
        findBooking(i, q) /\ UNCHANGED notRaceVars
  \/ \E i \in StatusSlots : saveBooking(i) /\ UNCHANGED notRaceVars
  \/ \E i \in StatusSlots : createNotification(i) /\ UNCHANGED notRaceVars

----------------------------------------------------------------------------
(* Claims about concurrent status changes and their notifications *)

\* The statuses some handler stores over status s when it runs alone.
HandlerGraph(s) ==
  {q.to : q \in {x \in StatusRequests :
                   /\ x.to \in BOOKING_STATUSES
                   /\ StatusCheck(x.op, s, x.to)}}

\* C22: with status-changing requests for one booking processed concurrently,
\* each status stored for the booking is one that a handler stores over the
\* status stored before it: the stored statuses form a path of the
\* transition graph, and a stored completed or cancelled status is not
\* overwritten.
C22_StoredStatusesFormPath ==
  \A k \in 1..(Len(stored) - 1) :
     stored[k + 1].status \in HandlerGraph(stored[k].status)

\* The notification type the new status corresponds to.
TypeOfStatus ==
  [confirmed   |-> "booking_confirmed",
   in_progress |-> "booking_started",
   completed   |-> "booking_completed",
   cancelled   |-> "booking_cancelled",
   no_show     |-> "booking_no_show"]

NotesOf(serial) == {k \in DOMAIN statusNotes : statusNotes[k].serial = serial}

\* C23: a status change answered 200 has exactly one notification, addressed
\* to the booking's customer and of the type of the new status; a
\* notification exists only for a request whose status was stored before; a
\* rejected request has none.
C23_OneNotificationPerStatusChange ==
  /\ \A d \in statusDone :
        IF d.code = 200
          THEN /\ Cardinality(NotesOf(d.serial)) = 1
               /\ \A k \in NotesOf(d.serial) :
                     /\ statusNotes[k].user = BookingCustomer
                     /\ statusNotes[k].notificationType = TypeOfStatus[d.to]
          ELSE NotesOf(d.serial) = {}
  /\ \A k \in DOMAIN statusNotes :
        \E j \in 2..Len(stored) :
           /\ stored[j].by = statusNotes[k].serial
           /\ TypeOfStatus[stored[j].status] = statusNotes[k].notificationType

C23_Witness ==
  /\ \E d \in statusDone :
        d.code = 200 /\ d.op = "updateBookingStatus" /\ d.to = "in_progress"
  /\ \E d \in statusDone : d.code = 400 /\ d.read = "in_progress"
  /\ Len(statusNotes) = 2

----------------------------------------------------------------------------
(* Booking slots (createBooking and getAvailableSlots).  A time HH:MM is the *)
(* pair <<hour, minute>>; a Date is a day with the minutes since midnight.  *)

\* salon.openingTime / salon.closingTime of the stored salons.
SalonHours ==
  [s1 |-> [openingTime |-> <<9, 0>>, closingTime |-> <<10, 30>>],
   s2 |-> [openingTime |-> <<9, 15>>, closingTime |-> <<10, 30>>]]

\* Date strings of a request: a date alone, the same date with a time of day,
\* another date.
DateInputs == {"d1", "d1T10:00", "d2"}

\* new Date(string)
NewDate(string) ==
  CASE string = "d1"       -> [day |-> 1, minutes |-> 0]
    [] string = "d1T10:00" -> [day |-> 1, minutes |-> 600]
    [] string = "d2"       -> [day |-> 2, minutes |-> 0]

\* date.setHours(0, 0, 0, 0)
SetHoursZero(date) == [date EXCEPT !.minutes = 0]

TimeInputs == {<<9, 0>>, <<9, 30>>}

\* POST /api/bookings: the salon is read and must be active (the services are
\* taken as valid); the booking is created with status pending for the date
\* and time of the request.  No stored booking is read.
createBookingAt(u, salonId, bookingDate, bookingTime) ==
  /\ Len(slotBookings) < MaxSlotBookings
  /\ IF ~SalonUsable(salonId)
       THEN /\ slotResp' = [op |-> "createBooking", code |-> 404,
                            salon |-> salonId, day |-> 0, slots |-> <<>>]
            /\ UNCHANGED slotBookings
       ELSE /\ slotBookings' = Append(slotBookings,
                 [customer |-> u, salon |-> salonId,
                  bookingDate |-> NewDate(bookingDate),
                  bookingTime |-> bookingTime, status |-> "pending"])
            /\ slotResp' = [op |-> "createBooking", code |-> 201,
                            salon |-> salonId, day |-> 0, slots |-> <<>>]

\* A status-changing request on a stored booking, run alone: the handler's
\* status check, then the new status is saved.
changeStatusAt(i, q) ==
  /\ i \in DOMAIN slotBookings
  /\ q.to \in validStatuses
  /\ q.op = "cancelBooking" => q.user = slotBookings[i].customer
  /\ IF StatusCheck(q.op, slotBookings[i].status, q.to)
       THEN /\ slotBookings' = [slotBookings EXCEPT ![i].status = q.to]
            /\ slotResp' = [op |-> q.op, code |-> 200,
                            salon |-> slotBookings[i].salon, day |-> 0,
                            slots |-> <<>>]
       ELSE /\ slotResp' = [op |-> q.op, code |-> 400,
                            salon |-> slotBookings[i].salon, day |-> 0,
                            slots |-> <<>>]
            /\ UNCHANGED slotBookings

\* The while loop of getAvailableSlots from currentHour:currentMin.
RECURSIVE GenerateSlots(_, _, _, _)
GenerateSlots(currentHour, currentMin, closing, bookedTimes) ==
  IF \/ currentHour < closing[1]
     \/ (currentHour = closing[1] /\ currentMin < closing[2])
    THEN <<[time |-> <<currentHour, currentMin>>,
            available |-> <<currentHour, currentMin>> \notin bookedTimes]>>
         \o (IF currentMin + 30 >= 60
               THEN GenerateSlots(currentHour + 1, 0, closing, bookedTimes)
               ELSE GenerateSlots(currentHour, currentMin + 30, closing,
                                  bookedTimes))
    ELSE <<>>

\* GET /api/bookings/available-slots?salon=&date=
getAvailableSlots(salonId, date) ==
  IF salonId \notin DOMAIN SalonDocs
    THEN /\ slotResp' = [op |-> "getAvailableSlots", code |-> 404,
                         salon |-> salonId, day |-> 0, slots |-> <<>>]
         /\ UNCHANGED slotBookings
    ELSE LET bookingDate == SetHoursZero(NewDate(date))
             existingBookings ==
               {b \in Range(slotBookings) :
                  /\ b.salon = salonId
                  /\ b.bookingDate = bookingDate
                  /\ b.status \in {"pending", "confirmed"}}
             bookedTimes == {b.bookingTime : b \in existingBookings}
             salon == SalonHours[salonId]
         IN /\ slotResp' =
                 [op |-> "getAvailableSlots", code |-> 200,
                  salon |-> salonId, day |-> bookingDate.day,
                  slots |-> GenerateSlots(salon.openingTime[1],
                                          salon.openingTime[2],
                                          salon.closingTime, bookedTimes)]
            /\ UNCHANGED slotBookings

InitSlots ==
  /\ slotBookings = <<>>
  /\ slotResp = [op |-> None, code |-> 0, salon |-> None, day |-> 0,
                 slots |-> <<>>]

notSlotVars ==
  <<bookingVars, favVars, addrVars, filterVars, searchVars, pagVars, listVars,
    fmtVars, shortVars, authVars, textVars, raceVars,
  refreshVars,
  otpVars,
  resetVars,
  accountVars>>

NextSlots ==
  \/ \E u \in Users, s \in SalonIdInputs, d \in DateInputs, t \in TimeInputs :
        createBookingAt(u, s, d, t) /\ UNCHANGED notSlotVars
  \/ \E i \in 1..MaxSlotBookings, q \in StatusRequests :
        changeStatusAt(i, q) /\ UNCHANGED notSlotVars
  \/ \E s \in SalonIdInputs, d \in DateInputs :
        getAvailableSlots(s, d) /\ UNCHANGED notSlotVars

----------------------------------------------------------------------------
(* Claims about the slots *)

MinutesOfDay(t) == t[1] * 60 + t[2]

\* The times from opening in 30-minute steps strictly before closing.
HalfHourSteps(opening, closing) ==
  {t \in (0..23) \X (0..59) :
     /\ MinutesOfDay(t) >= MinutesOfDay(opening)
     /\ MinutesOfDay(t) < MinutesOfDay(closing)
     /\ (MinutesOfDay(t) - MinutesOfDay(opening)) % 30 = 0}

\* A pending or confirmed booking of the salon on that day at that time.
SlotTaken(bs, salonId, day, time) ==
  \E b \in Range(bs) :
     /\ b.salon = salonId
     /\ b.bookingDate.day = day
     /\ b.bookingTime = time
     /\ b.status \in {"pending", "confirmed"}

\* C24: after any sequence of booking operations, getAvailableSlots for a
\* salon and date lists exactly the times from openingTime in 30-minute steps
\* strictly before closingTime, and reports a time as unavailable exactly when
\* a pending or confirmed booking of that salon on that date has that time.
C24_SlotsListedAndAvailability ==
  [][(slotResp'.op = "getAvailableSlots" /\ slotResp'.code = 200) =>
       LET r == slotResp'
           hours == SalonHours[r.salon]
       IN /\ {r.slots[k].time : k \in DOMAIN r.slots} =
               HalfHourSteps(hours.openingTime, hours.closingTime)
          /\ \A k \in DOMAIN r.slots :
                r.slots[k].available <=>
                  ~SlotTaken(slotBookings, r.salon, r.day, r.slots[k].time)]_vars

\* C25: no two bookings with status pending or confirmed have the same
\* salon, bookingDate and bookingTime.
C25_NoDoubleBooking ==
  \A i, j \in DOMAIN slotBookings :
     (/\ i # j
      /\ slotBookings[i].status \in {"pending", "confirmed"}
      /\ slotBookings[j].status \in {"pending", "confirmed"}
      /\ slotBookings[i].salon = slotBookings[j].salon
      /\ slotBookings[i].bookingDate = slotBookings[j].bookingDate)
     => slotBookings[i].bookingTime # slotBookings[j].bookingTime

----------------------------------------------------------------------------
(* Refresh tokens (auth controller).  jwt.sign({id}, secret, {expiresIn})   *)
(* yields a string determined by the user id, the second of issue (iat) and *)
(* the lifetime: two tokens signed for one user within one second are the   *)
(* same string.  A token is the record of the user and its second of issue. *)

NoToken == [id |-> None, iat |-> 0]

\* A string that is no token signed with the refresh secret.
ForgedToken == [id |-> "forged", iat |-> 0]

\* generateTokens(userId).refreshToken at the current second.
generateTokens(userId) == [id |-> userId, iat |-> now]

\* jwt.verify(token, config.jwt.refreshSecret): the signature and exp.
verifyRefreshToken(token) ==
  /\ token.id \in Users
  /\ now < token.iat + RefreshExpiresIn

AuthResponse(op, code, user, token) ==
  authResp' = [op |-> op, code |-> code, user |-> user, token |-> token]

\* Storing a new refresh token for the user.
StoreToken(u, token) ==
  /\ accounts' = [accounts EXCEPT ![u] = [registered |-> TRUE, refreshToken |-> token]]
  /\ issuedTokens' = issuedTokens \cup {token}

\* POST /api/auth/register
register(u) ==
  /\ IF accounts[u].registered
       THEN /\ AuthResponse("register", 400, u, NoToken)
            /\ UNCHANGED <<accounts, issuedTokens>>
       ELSE /\ StoreToken(u, generateTokens(u))
            /\ AuthResponse("register", 201, u, generateTokens(u))
  /\ UNCHANGED <<now, spentTokens, revokedTokens>>

\* POST /api/auth/login
login(u, passwordMatches) ==
  /\ IF ~accounts[u].registered \/ ~passwordMatches
       THEN /\ AuthResponse("login", 401, u, NoToken)
            /\ UNCHANGED <<accounts, issuedTokens, revokedTokens>>
       ELSE /\ StoreToken(u, generateTokens(u))
            /\ AuthResponse("login", 200, u, generateTokens(u))
            /\ revokedTokens' = {t \in revokedTokens : t.id # u}
  /\ UNCHANGED <<now, spentTokens>>

\* POST /api/auth/logout (authenticated as u)
logout(u) ==
  /\ accounts[u].registered
  /\ accounts' = [accounts EXCEPT ![u].refreshToken = NoToken]
  /\ revokedTokens' = revokedTokens \cup {t \in issuedTokens : t.id = u}
  /\ AuthResponse("logout", 200, u, NoToken)
  /\ UNCHANGED <<now, issuedTokens, spentTokens>>

\* POST /api/auth/refresh-token
refreshToken(token) ==
  /\ IF ~verifyRefreshToken(token)
       THEN /\ AuthResponse("refreshToken", 401, token.id, token)
            /\ UNCHANGED <<accounts, issuedTokens, spentTokens>>
     ELSE IF ~accounts[token.id].registered
             \/ accounts[token.id].refreshToken # token
       THEN /\ AuthResponse("refreshToken", 401, token.id, token)
            /\ UNCHANGED <<accounts, issuedTokens, spentTokens>>
     ELSE /\ StoreToken(token.id, generateTokens(token.id))
          /\ spentTokens' = spentTokens \cup {token}
          /\ AuthResponse("refreshToken", 200, token.id, token)
  /\ UNCHANGED <<now, revokedTokens>>

\* A second passes.
Tick ==
  /\ now < MaxNow
  /\ now' = now + 1
  /\ UNCHANGED <<accounts, issuedTokens, spentTokens, revokedTokens, authResp>>

InitRefresh ==
  /\ accounts = [u \in Users |-> [registered |-> FALSE, refreshToken |-> NoToken]]
  /\ now = 0
  /\ issuedTokens = {}
  /\ spentTokens = {}
  /\ revokedTokens = {}
  /\ authResp = [op |-> None, code |-> 0, user |-> None, token |-> NoToken]

notRefreshVars ==
  <<bookingVars, favVars, addrVars, filterVars, searchVars, pagVars, listVars,
    fmtVars, shortVars, authVars, textVars, raceVars, slotVars,
  otpVars,
  resetVars,
  accountVars>>

NextRefresh ==
  \/ \E u \in Users : register(u) /\ UNCHANGED notRefreshVars
  \/ \E u \in Users, ok \in BOOLEAN : login(u, ok) /\ UNCHANGED notRefreshVars
  \/ \E u \in Users : logout(u) /\ UNCHANGED notRefreshVars
  \/ \E t \in issuedTokens \cup {ForgedToken} :
        refreshToken(t) /\ UNCHANGED notRefreshVars
  \/ Tick /\ UNCHANGED notRefreshVars

----------------------------------------------------------------------------
(* Claims about refresh tokens *)

\* C26: POST /auth/refresh-token succeeds only for the refresh token stored
\* last for the user; a token that was presented in a successful refresh, and
\* every token of a user issued before a logout with no login since, is
\* answered 401.
C26_RefreshTokenRotates ==
  [][authResp'.op = "refreshToken" /\ authResp' # authResp =>
       /\ authResp'.code = 200 =>
             accounts[authResp'.user].refreshToken = authResp'.token
       /\ authResp'.token \in spentTokens \cup revokedTokens =>
             authResp'.code = 401]_vars

----------------------------------------------------------------------------
(* One-time passwords (OTP model).  generateOTP awaits updateMany and then  *)
(* create; verifyOTP awaits findOne and then save.                          *)

OtpSlots == 1..MaxOtpRequests

\* crypto.randomInt(100000, 999999).toString()
OtpCodes == {"123456", "654321"}

IdleOtpRequest == [pc |-> "idle", user |-> None, found |-> 0]

\* otpSchema.methods.isValid at the current time
isValid(record) == ~record.isUsed /\ otpClock <= record.expiresAt

\* generateOTP: await this.updateMany({user, isUsed: false}, {isUsed: true})
generateOTPInvalidate(i, u) ==
  /\ otpReqs[i].pc = "idle"
  /\ Len(otps) < MaxOtps
  /\ otps' = [k \in DOMAIN otps |->
                IF otps[k].user = u /\ ~otps[k].isUsed
                  THEN [otps[k] EXCEPT !.isUsed = TRUE]
                  ELSE otps[k]]
  /\ otpReqs' = [otpReqs EXCEPT ![i] = [pc |-> "create", user |-> u, found |-> 0]]
  /\ UNCHANGED <<otpClock, otpVerified>>

\* generateOTP: return this.create({user, email, otp, expiresAt})
generateOTPCreate(i, code) ==
  /\ otpReqs[i].pc = "create"
  /\ Len(otps) < MaxOtps
  /\ otps' = Append(otps, [user |-> otpReqs[i].user, otp |-> code,
                           expiresAt |-> otpClock + OtpExpiresMinutes,
                           isUsed |-> FALSE])
  /\ otpReqs' = [otpReqs EXCEPT ![i] = IdleOtpRequest]
  /\ UNCHANGED <<otpClock, otpVerified>>

\* verifyOTP: await this.findOne({email, otp, isUsed: false,
\* expiresAt: {$gt: new Date()}}).sort({createdAt: -1}); no record answers
\* isValid: false.
verifyOTPFind(i, u, code) ==
  /\ otpReqs[i].pc = "idle"
  /\ LET matching == {k \in DOMAIN otps :
                        /\ otps[k].user = u
                        /\ otps[k].otp = code
                        /\ ~otps[k].isUsed
                        /\ otps[k].expiresAt > otpClock}
     IN /\ matching # {}
        /\ otpReqs' = [otpReqs EXCEPT ![i] =
             [pc |-> "save", user |-> u,
              found |-> CHOOSE k \in matching : \A j \in matching : j <= k]]
  /\ UNCHANGED <<otps, otpClock, otpVerified>>

\* verifyOTP: otpRecord.isUsed = true; await otpRecord.save();
\* return {isValid: true, user}
verifyOTPSave(i) ==
  /\ otpReqs[i].pc = "save"
  /\ otps' = [otps EXCEPT ![otpReqs[i].found].isUsed = TRUE]
  /\ otpVerified' = Append(otpVerified, otpReqs[i].found)
  /\ otpReqs' = [otpReqs EXCEPT ![i] = IdleOtpRequest]
  /\ UNCHANGED otpClock

\* A minute passes.
OtpTick ==
  /\ otpClock < MaxOtpClock
  /\ otpClock' = otpClock + 1
  /\ UNCHANGED <<otps, otpReqs, otpVerified>>

InitOtp ==
  /\ otps = <<>>
  /\ otpReqs = [i \in OtpSlots |-> IdleOtpRequest]
  /\ otpClock = 0
  /\ otpVerified = <<>>

notOtpVars ==
  <<bookingVars, favVars, addrVars, filterVars, searchVars, pagVars, listVars,
    fmtVars, shortVars, authVars, textVars, raceVars, slotVars, refreshVars,
  resetVars,
  accountVars>>

NextOtp ==
  \/ \E i \in OtpSlots, u \in Users :
        generateOTPInvalidate(i, u) /\ UNCHANGED notOtpVars
  \/ \E i \in OtpSlots, c \in OtpCodes :
        generateOTPCreate(i, c) /\ UNCHANGED notOtpVars
  \/ \E i \in OtpSlots, u \in Users, c \in OtpCodes :
        verifyOTPFind(i, u, c) /\ UNCHANGED notOtpVars
  \/ \E i \in OtpSlots : verifyOTPSave(i) /\ UNCHANGED notOtpVars
  \/ OtpTick /\ UNCHANGED notOtpVars

----------------------------------------------------------------------------
(* Claims about one-time passwords *)

\* C27: an OTP verifies at most once, also with concurrent verifications, and
\* at any time at most one OTP of a user is usable.
C27_OtpVerifiesOnce ==
  /\ \A j, k \in DOMAIN otpVerified :
        otpVerified[j] = otpVerified[k] => j = k
  /\ \A u \in Users :
        Cardinality({k \in DOMAIN otps : otps[k].user = u /\ isValid(otps[k])})
          <= 1

----------------------------------------------------------------------------
(* Password reset (auth controller).  A JWT is the record of the user, the  *)
(* secret it is signed with and a serial standing for its time of issue.    *)

\* config.jwt.secret and config.jwt.refreshSecret
JwtSecret == "your-secret-key-change-in-production"
JwtRefreshSecret == "your-refresh-secret-change-in-production"

\* New passwords of a request, with their lengths.
PasswordInputs == {[text |-> "seven77", length |-> 7],
                   [text |-> "eight888", length |-> 8]}

InitialPassword == [text |-> "initial0", length |-> 8]

\* jwt.sign({id}, secret, ...)
JwtSign(userId, secret) ==
  [id |-> userId, secret |-> secret, serial |-> Cardinality(jwts) + 1]

\* jwt.verify(token, config.jwt.refreshSecret) in verifyRefreshToken
JwtVerifyRefresh(token) == token.secret = JwtRefreshSecret

ResetResponse(op, code, token, password) ==
  resetResp' = [op |-> op, code |-> code, token |-> token, password |-> password]

\* POST /api/auth/login with the right password: generateTokens(user._id)
\* signs an access token and a refresh token.
loginTokens(u) ==
  /\ Cardinality(jwts) + 2 <= MaxJwts
  /\ jwts' = jwts \cup {JwtSign(u, JwtSecret),
                        [JwtSign(u, JwtRefreshSecret) EXCEPT !.serial = @ + 1]}
  /\ ResetResponse("login", 200, NoToken, InitialPassword)
  /\ UNCHANGED <<passwords, resetOtp, resetTokens>>

\* POST /api/auth/forgot-password: OTP.generateOTP(user, email)
forgotPassword(u, code) ==
  /\ resetOtp' = [resetOtp EXCEPT ![u] = [otp |-> code, isUsed |-> FALSE]]
  /\ ResetResponse("forgotPassword", 200, NoToken, InitialPassword)
  /\ UNCHANGED <<passwords, jwts, resetTokens>>

\* POST /api/auth/verify-reset-otp: OTP.verifyOTP(email, otp), then
\* resetToken = generateTokens(user._id, '10m').accessToken
verifyResetOtp(u, code) ==
  IF resetOtp[u].otp = code /\ ~resetOtp[u].isUsed
    THEN /\ Cardinality(jwts) < MaxJwts
         /\ resetOtp' = [resetOtp EXCEPT ![u].isUsed = TRUE]
         /\ jwts' = jwts \cup {JwtSign(u, JwtSecret)}
         /\ resetTokens' = resetTokens \cup {JwtSign(u, JwtSecret)}
         /\ ResetResponse("verifyResetOtp", 200, JwtSign(u, JwtSecret),
                          InitialPassword)
         /\ UNCHANGED <<passwords>>
    ELSE /\ ResetResponse("verifyResetOtp", 400, NoToken, InitialPassword)
         /\ UNCHANGED <<passwords, resetOtp, jwts, resetTokens>>

\* POST /api/auth/reset-password
resetPassword(token, newPassword) ==
  /\ IF newPassword.length < 8
       THEN /\ ResetResponse("resetPassword", 400, token, newPassword)
            /\ UNCHANGED passwords
     ELSE IF ~JwtVerifyRefresh(token)
       THEN /\ ResetResponse("resetPassword", 400, token, newPassword)
            /\ UNCHANGED passwords
     ELSE /\ passwords' = [passwords EXCEPT ![token.id] = newPassword]
          /\ ResetResponse("resetPassword", 200, token, newPassword)
  /\ UNCHANGED <<resetOtp, jwts, resetTokens>>

InitReset ==
  /\ passwords = [u \in Users |-> InitialPassword]
  /\ resetOtp = [u \in Users |-> [otp |-> None, isUsed |-> TRUE]]
  /\ jwts = {}
  /\ resetTokens = {}
  /\ resetResp = [op |-> None, code |-> 0, token |-> NoToken,
                  password |-> InitialPassword]

notResetVars ==
  <<bookingVars, favVars, addrVars, filterVars, searchVars, pagVars, listVars,
    fmtVars, shortVars, authVars, textVars, raceVars, slotVars, refreshVars,
    otpVars,
  accountVars>>

NextReset ==
  \/ \E u \in Users : loginTokens(u) /\ UNCHANGED notResetVars
  \/ \E u \in Users, c \in OtpCodes :
        forgotPassword(u, c) /\ UNCHANGED notResetVars
  \/ \E u \in Users, c \in OtpCodes :
        verifyResetOtp(u, c) /\ UNCHANGED notResetVars
  \/ \E t \in jwts, p \in PasswordInputs :
        resetPassword(t, p) /\ UNCHANGED notResetVars

----------------------------------------------------------------------------
(* Claims about the password reset *)

\* C28: resetPassword with a token returned by verifyResetOtp and a new
\* password of at least 8 characters succeeds and changes the password of the
\* token's user; resetPassword succeeds with no other token.
C28_ResetFlowCompletes ==
  [][(resetResp'.op = "resetPassword" /\ resetResp' # resetResp) =>
       /\ (resetResp'.token \in resetTokens /\ resetResp'.password.length >= 8)
             => /\ resetResp'.code = 200
                /\ passwords'[resetResp'.token.id] = resetResp'.password
       /\ resetResp'.code = 200 => resetResp'.token \in resetTokens]_vars

----------------------------------------------------------------------------
(* Account deletion (user controller, deleteAccount) *)

\* POST /api/bookings by u: a pending booking whose customer is u.
accountCreateBooking(u) ==
  /\ u \in acctUsers
  /\ Len(acctBookings) < MaxAccountBookings
  /\ acctBookings' = Append(acctBookings, [customer |-> u, status |-> "pending"])
  /\ acctResp' = [op |-> "createBooking", code |-> 201, user |-> u]
  /\ UNCHANGED <<acctUsers, acctFavorites>>

\* A status-changing request on a stored booking, run alone.
accountChangeStatus(i, q) ==
  /\ i \in DOMAIN acctBookings
  /\ q.to \in validStatuses
  /\ q.op = "cancelBooking" => q.user = acctBookings[i].customer
  /\ StatusCheck(q.op, acctBookings[i].status, q.to)
  /\ acctBookings' = [acctBookings EXCEPT ![i].status = q.to]
  /\ acctResp' = [op |-> q.op, code |-> 200, user |-> q.user]
  /\ UNCHANGED <<acctUsers, acctFavorites>>

\* POST /api/favorites by u for a salon not yet among u's favorites.
accountAddFavorite(u, s) ==
  /\ u \in acctUsers
  /\ [user |-> u, salon |-> s] \notin acctFavorites
  /\ acctFavorites' = acctFavorites \cup {[user |-> u, salon |-> s]}
  /\ acctResp' = [op |-> "addFavorite", code |-> 201, user |-> u]
  /\ UNCHANGED <<acctUsers, acctBookings>>

\* Booking.updateMany({user: userId, status: {$in: ['pending', 'confirmed']}},
\* {status: 'cancelled', ...}): the booking schema has no path `user` (the
\* customer is stored in `customer`).  With strictQuery the filter loses the
\* unknown path and matches by status alone; without it the filter asks for
\* a field no booking has and matches nothing.
BookingUpdateManyByUser(docs, userId, strictQuery) ==
  [k \in DOMAIN docs |->
     IF strictQuery /\ docs[k].status \in {"pending", "confirmed"}
       THEN [docs[k] EXCEPT !.status = "cancelled"]
       ELSE docs[k]]

\* DELETE /api/users/account, authenticated as u; strictQuery is the
\* setting of the Mongoose build in use.
deleteAccount(u, strictQuery) ==
  /\ u \in acctUsers
  /\ acctBookings' = BookingUpdateManyByUser(acctBookings, u, strictQuery)
  /\ acctFavorites' = {f \in acctFavorites : f.user # u}
  /\ acctUsers' = acctUsers \ {u}
  /\ acctResp' = [op |-> "deleteAccount", code |-> 200, user |-> u]

InitAccount ==
  /\ acctUsers = Users
  /\ acctBookings = <<>>
  /\ acctFavorites = {}
  /\ acctResp = [op |-> None, code |-> 0, user |-> None]

notAccountVars ==
  <<bookingVars, favVars, addrVars, filterVars, searchVars, pagVars, listVars,
    fmtVars, shortVars, authVars, textVars, raceVars, slotVars, refreshVars,
    otpVars, resetVars>>

NextAccount ==
  \/ \E u \in Users : accountCreateBooking(u) /\ UNCHANGED notAccountVars
  \/ \E i \in 1..MaxAccountBookings, q \in StatusRequests :
        accountChangeStatus(i, q) /\ UNCHANGED notAccountVars
  \/ \E u \in Users, s \in DOMAIN SalonDocs :
        accountAddFavorite(u, s) /\ UNCHANGED notAccountVars
  \/ \E u \in Users, strictQuery \in BOOLEAN :
        deleteAccount(u, strictQuery) /\ UNCHANGED notAccountVars

----------------------------------------------------------------------------
(* Claims about account deletion *)

\* C29: deleteAccount sets every pending or confirmed booking whose customer
\* is the deleted user to cancelled, deletes the user's favorites and the
\* user, and leaves the bookings and favorites of every other user unchanged.
C29_DeleteAccountFrame ==
  [][acctResp'.op = "deleteAccount" =>
       LET u == acctResp'.user
       IN /\ \A k \in DOMAIN acctBookings :
                IF /\ acctBookings[k].customer = u
                   /\ acctBookings[k].status \in {"pending", "confirmed"}
                  THEN acctBookings'[k].status = "cancelled"
                  ELSE acctBookings'[k] = acctBookings[k]
          /\ acctFavorites' = {f \in acctFavorites : f.user # u}
          /\ acctUsers' = acctUsers \ {u}]_vars

----------------------------------------------------------------------------
Init ==
  /\ InitBooking
  /\ InitFav
  /\ InitAddr
  /\ InitFilter
  /\ InitSearch
  /\ InitPagination
  /\ InitList
  /\ InitFormat
  /\ InitShort
  /\ InitAuth
  /\ InitText
  /\ InitRace
  /\ InitSlots
  /\ InitRefresh
  /\ InitOtp
  /\ InitReset
  /\ InitAccount

Next ==
  \/ NextBooking
  \/ NextFav
  \/ NextFavRace
  \/ NextAddr
  \/ NextFilter
  \/ NextSearch
  \/ NextPagination
  \/ NextList
  \/ NextFormat
  \/ NextShort
  \/ NextBookingAuth
  \/ NextText
  \/ NextBookingRace
  \/ NextSlots
  \/ NextRefresh
  \/ NextOtp
  \/ NextReset
  \/ NextAccount

Spec == Init /\ [][Next]_vars

SpecBooking == Init /\ [][NextBooking]_vars

SpecFav == Init /\ [][NextFav]_vars

SpecFavRace == Init /\ [][NextFavRace]_vars

SpecAddr == Init /\ [][NextAddr]_vars

SpecFilter == Init /\ [][NextFilter]_vars

SpecSearch == Init /\ [][NextSearch]_vars

SpecPagination == Init /\ [][NextPagination]_vars

SpecList == Init /\ [][NextList]_vars

SpecFormat == Init /\ [][NextFormat]_vars

SpecShort == Init /\ [][NextShort]_vars

SpecBookingAuth == Init /\ [][NextBookingAuth]_vars

SpecText == Init /\ [][NextText]_vars

SpecBookingRace == Init /\ [][NextBookingRace]_vars

SpecSlots == Init /\ [][NextSlots]_vars

SpecRefresh == Init /\ [][NextRefresh]_vars

SpecOtp == Init /\ [][NextOtp]_vars

SpecReset == Init /\ [][NextReset]_vars

SpecAccount == Init /\ [][NextAccount]_vars

====
